---- MODULE Spec2Model ----
(***************************************************************************)
(* Yofarm Hub B2B USSD service: the USSD conversation state machine of     *)
(* services.py (USSDHandler, UserService, PaymentService) and the payment  *)
(* webhook of app.py, over one Firestore 'users' collection.               *)
(*                                                                         *)
(* Texts are sequences of one-character strings.  A Firestore document is  *)
(* a function from the names of the fields it holds to their values; the   *)
(* collection is a function from the ids of the documents that exist.      *)
(* Python's None is the string "None"; a missing phone is the empty text.  *)
(***************************************************************************)
EXTENDS Integers, Sequences, FiniteSets, TLC

VARIABLES store, pc, loc, nextTxn, prev,
          access_token, token_expires_at, now, tpc, tloc, nextTok, grants,
          session, fin, fout, sent

\* the record store, the workers and the provider's transaction ids
sysVars == <<store, pc, loc, nextTxn, prev>>

\* PaymentService's token cache, the clock, and the callers of get_access_token
tokVars == <<access_token, token_expires_at, now, tpc, tloc, nextTok, grants>>

\* the argument and the result of one application of a pure function
fnVars == <<fin, fout>>

\* the collection requests the provider has received, in order
reqVars == <<sent>>

\* everything but the store and the workers
auxVars == <<tokVars, session, fnVars, reqVars>>

vars == <<sysVars, tokVars, session, fnVars, reqVars>>

None == "None"

NoPhone == <<>>

EmptyDict == [f \in {} |-> ""]

(***************************************************************************)
(* Python helpers                                                          *)
(***************************************************************************)

\* dict.get(key): the value, or None when the key is missing
Get(d, f) == IF f \in DOMAIN d THEN d[f] ELSE None

\* Firestore set(..., merge=True) / update(...): fields of u overwrite those of d
Merge(d, u) == [f \in (DOMAIN d) \cup (DOMAIN u) |-> IF f \in DOMAIN u THEN u[f] ELSE d[f]]

\* Firestore DELETE_FIELD
DeleteField(d, k) == [f \in (DOMAIN d) \ {k} |-> d[f]]

\* truthiness of a string-valued field: "" and None are falsy
Truthy(v) == v # "" /\ v # None

\* the characters str.strip() removes
Whitespace == {" ", "\t", "\n"}

RECURSIVE lstrip(_)
lstrip(s) == IF s # <<>> /\ Head(s) \in Whitespace THEN lstrip(Tail(s)) ELSE s

RECURSIVE rstrip(_)
rstrip(s) ==
    IF s # <<>> /\ s[Len(s)] \in Whitespace THEN rstrip(SubSeq(s, 1, Len(s) - 1)) ELSE s

\* str.strip()
strip(s) == rstrip(lstrip(s))

RECURSIVE splitFrom(_, _, _)
splitFrom(s, cur, acc) ==
    IF s = <<>> THEN Append(acc, cur)
    ELSE IF Head(s) = "*" THEN splitFrom(Tail(s), <<>>, Append(acc, cur))
    ELSE splitFrom(Tail(s), Append(cur, Head(s)), acc)

\* str.split("*")
split(s) == splitFrom(s, <<>>, <<>>)

\* the raw text None (no text at all), as opposed to the empty text
NoneText == <<"None">>

\* a parse that splits the raw text as it came
parse_text_no_strip(raw_text) ==
    IF raw_text = NoneText THEN <<>>
    ELSE IF raw_text = <<>> \/ raw_text = <<" ">> THEN <<>> ELSE split(raw_text)

\* USSDHandler.parse_text
parse_text(raw_text) ==
    IF raw_text = NoneText THEN <<>>
    ELSE LET text == strip(raw_text) IN
         IF text = <<>> \/ text = <<" ">> THEN <<>> ELSE split(text)

(***************************************************************************)
(* Responses                                                               *)
(***************************************************************************)

\* a message: its template, the strings and the texts formatted into it
Msg(t) == [t |-> t, s |-> <<>>, c |-> <<>>]

MsgF(t, s, c) == [t |-> t, s |-> s, c |-> c]

\* USSDHandler.create_response
create_response(response_type, message) ==
    [response_type |-> response_type, message |-> message]

NoResp == create_response("", Msg(""))

INQUIRY_PHONE == "Config.INQUIRY_PHONE"

M_WELCOME == Msg("Welcome to Yofarm Hub B2B\n1. Register\n2. Exit")
M_INVALID_CHOICE == Msg("Invalid choice. Please dial again. Thank you.")
M_GOODBYE == Msg("Thank you for your interest. Goodbye.")
M_ENTER_NAME == Msg("Enter your full name:")
M_SELECT_ROLE == Msg("Select your role:\n1. Farmer\n2. Buyer\n3. Service Provider")
M_INVALID_ROLE == Msg("Invalid role selection. Session ended.")
M_ENTER_LOCATION == Msg("Enter your Location (District):")
M_TERMS == Msg("By continuing, you agree to our Privacy Policy & Terms.\n1. Accept\n2. Decline")
M_INVALID_INPUT == Msg("Invalid input. Session ended.")
M_DECLINED == Msg("You must accept the Privacy Policy to use Yofarm Hub B2B. Thank you.")
M_PACKAGES == Msg("Choose membership:\n1. Yofarm Access - UGX 9,999\n")
M_INVALID_PACKAGE == Msg("Invalid package selection. Session ended.")
M_PAY(package) == MsgF("You selected {package}.\nPay via Mobile Money?\n1. Yes\n2. Cancel", <<package>>, <<>>)
M_INVALID_OPTION == Msg("Invalid option. Session ended.")
M_CANCELLED == Msg("Your registration was cancelled. Dial again to register.")
M_INCOMPLETE(name, option_text, package) ==
    MsgF("Welcome back {name}. Your registration is incomplete.\n{option_text}\n2. Restart registration",
         <<option_text, package>>, <<name>>)
M_RESET == Msg("Registration reset. Please redial the code to start fresh registration.")
M_REGISTERED_MENU == Msg("Welcome back to Yofarm Hub B2B\n1. Buy produce or service\n2. Sell produce or service")
M_THANKS == MsgF("Thank you for partnering with Yofarm Hub B2B. We'll get back ASAP. Inquiries: {INQUIRY_PHONE}",
                 <<INQUIRY_PHONE>>, <<>>)
M_UNAVAILABLE == Msg("Service temporarily unavailable. Please try again later.")
M_SERVICE_ERROR == Msg("Service error. Please try again later.")
M_SENT == Msg("Payment request sent. Confirm on your phone.")
M_CANNOT_PROCESS == Msg("We cannot process your payment at the moment. Please try again later.")
M_NO_TRANSACTION == Msg("No transaction found. Please restart registration.")
M_UNABLE_TO_CHECK == Msg("Unable to check payment status. Please try again later.")
M_CONGRATS(name, role, location) ==
    MsgF("Thank you {name}!\nYou're now registered as a {role} in {location}. We'll get back to you ASAP.\nInquiries: {INQUIRY_PHONE}",
         <<role, INQUIRY_PHONE>>, <<name, location>>)
M_PAYMENT_FAILED == Msg("Payment failed. Try again later.")
M_PAYMENT_PENDING == Msg("Payment is pending. Confirm again later")
M_INIT_FAILED == Msg("Payment initialization failed. Please try again later.")
M_RETRY_FAILED == Msg("Payment retry failed. Please try again later.")
M_CONFIRM_FAILED == Msg("Payment confirmation failed. Please try again later.")

(***************************************************************************)
(* User, UserService                                                       *)
(***************************************************************************)

\* datetime.now().isoformat(): the instant of a write carries no control flow
NOW_ISO == "now"

\* the User dataclass and User.to_dict
User(phone, name, role, location, package) ==
    [phone |-> phone, name |-> name, role |-> role, location |-> location,
     package |-> package, status |-> "new", transaction_id |-> "",
     created_at |-> "", updated_at |-> ""]

\* UserService.get_user: the document, or nothing (the empty dict stands for
\* None: both are falsy and hold no field)
get_user(db, phone) == IF phone \in DOMAIN db THEN db[phone] ELSE EmptyDict

\* the collection with document id holding doc
PutDoc(db, id, doc) == [k \in (DOMAIN db) \cup {id} |-> IF k = id THEN doc ELSE db[k]]

\* UserService.save_user: set(user_data, merge=True), creating the document
save_user(db, user_data) ==
    LET phone == user_data.phone
        data == Merge(user_data, [updated_at |-> NOW_ISO])
    IN PutDoc(db, phone, Merge(get_user(db, phone), data))

\* a delete that resets the record instead of removing it
delete_user_soft(db, phone) ==
    IF phone \in DOMAIN db
    THEN PutDoc(db, phone, Merge(db[phone], [status |-> "new", transaction_id |-> ""]))
    ELSE db

\* UserService.delete_user
delete_user(db, phone) == [k \in (DOMAIN db) \ {phone} |-> db[k]]

\* an update made with set(merge=True): it creates a missing document
update_user_status_upserts(db, phone, status, transaction_id) ==
    LET base == [status |-> status, updated_at |-> NOW_ISO]
        update_data == IF Truthy(transaction_id)
                       THEN Merge(base, [transaction_id |-> transaction_id])
                       ELSE base
    IN PutDoc(db, phone, IF phone \in DOMAIN db THEN Merge(db[phone], update_data)
                         ELSE update_data)

\* an update that writes the transaction id also when none was passed
update_user_status_always_txn(db, phone, status, transaction_id) ==
    LET update_data == [status |-> status, updated_at |-> NOW_ISO,
                        transaction_id |-> transaction_id]
    IN IF phone \in DOMAIN db THEN PutDoc(db, phone, Merge(db[phone], update_data)) ELSE db

\* UserService.update_user_status: update() of a missing document raises
\* NotFound, which the method catches: nothing is written
update_user_status(db, phone, status, transaction_id) ==
    LET base == [status |-> status, updated_at |-> NOW_ISO]
        update_data == IF Truthy(transaction_id)
                       THEN Merge(base, [transaction_id |-> transaction_id])
                       ELSE base
    IN IF phone \in DOMAIN db THEN PutDoc(db, phone, Merge(db[phone], update_data)) ELSE db

(***************************************************************************)
(* PaymentService                                                          *)
(***************************************************************************)

Digits == {"0", "1", "2", "3", "4", "5", "6", "7", "8", "9"}

\* ''.join(filter(str.isdigit, phone))
RECURSIVE digitsOf(_)
digitsOf(s) ==
    IF s = <<>> THEN <<>>
    ELSE IF Head(s) \in Digits THEN <<Head(s)>> \o digitsOf(Tail(s))
    ELSE digitsOf(Tail(s))

startswith(s, prefix) == Len(s) >= Len(prefix) /\ SubSeq(s, 1, Len(prefix)) = prefix

C256 == <<"2", "5", "6">>

\* a normaliser that keeps the leading 0 of the national form
format_phone_number_keeps_zero(raw) ==
    LET phone == digitsOf(raw) IN
    IF startswith(phone, C256) /\ Len(phone) = 12 THEN phone
    ELSE IF startswith(phone, <<"0">>) /\ Len(phone) = 10 THEN C256 \o phone
    ELSE IF Len(phone) = 9 THEN C256 \o phone
    ELSE NoPhone

\* PaymentService.format_phone_number: the MSISDN, or NoPhone for None
format_phone_number(raw) ==
    LET phone == digitsOf(raw) IN
    IF startswith(phone, C256) /\ Len(phone) = 12 THEN phone
    ELSE IF startswith(phone, <<"0">>) /\ Len(phone) = 10 THEN C256 \o Tail(phone)
    ELSE IF Len(phone) = 9 THEN C256 \o phone
    ELSE NoPhone

\* the result dict of initiate_collection and check_transaction_status
Result(success, transaction_id, status, original_status, message) ==
    [success |-> success, transaction_id |-> transaction_id, status |-> status,
     original_status |-> original_status, message |-> message]

NoResult == Result(FALSE, "", "", "", "")

Failure(message) == Result(FALSE, "", "", "", message)

\* what one collection attempt meets: get_access_token returning None, the
\* POST raising RequestException (network error, timeout, non-2xx), a body
\* that is no JSON, or a 2xx answer with or without an "id"
CollectOutcomes == {"auth_failed", "http_error", "bad_body", "ok", "ok_no_id"}

\* a collection that goes on without an access token
initiate_collection_ignores_auth(phone, env, id) ==
    IF format_phone_number(phone) = NoPhone THEN Failure("Invalid phone number format")
    ELSE IF env = "http_error" THEN Failure("Payment service unavailable")
    ELSE IF env = "bad_body" THEN Failure("Payment initialization failed")
    ELSE Result(TRUE, IF env = "ok" THEN id ELSE None, "Pending", "Pending", "Payment request sent")

\* PaymentService.initiate_collection; id is the transaction id the provider
\* issues if it accepts the request
initiate_collection(phone, env, id) ==
    IF env = "auth_failed" THEN Failure("Authentication failed")
    ELSE IF format_phone_number(phone) = NoPhone THEN Failure("Invalid phone number format")
    ELSE IF env = "http_error" THEN Failure("Payment service unavailable")
    ELSE IF env = "bad_body" THEN Failure("Payment initialization failed")
    ELSE Result(TRUE, IF env = "ok" THEN id ELSE None, "Pending", "Pending", "Payment request sent")

\* the statuses the provider's status endpoint answers with; "Missing" is an
\* answer without a status field
ProviderStatuses == {"Success", "SUCCESS", "Failed", "Pending", "SentToVendor", "Expired", "Missing"}

\* str.lower() on the provider's vocabulary
lower(s) ==
    CASE s = "Success" -> "success"
      [] s = "SUCCESS" -> "success"
      [] s = "Failed" -> "failed"
      [] s = "Pending" -> "pending"
      [] s = "SentToVendor" -> "senttovendor"
      [] s = "Expired" -> "expired"
      [] s = "Unknown" -> "unknown"
      [] s = "Completed" -> "completed"
      [] OTHER -> s

\* a mapping that takes an unrecognised status for a success
status_mapping_failopen(status) ==
    CASE status = "success" -> "registered"
      [] status = "failed" -> "failed"
      [] status = "pending" -> "pending"
      [] status = "senttovendor" -> "pending"
      [] OTHER -> "registered"

\* status_mapping.get(status, 'failed')
status_mapping(status) ==
    CASE status = "success" -> "registered"
      [] status = "failed" -> "failed"
      [] status = "pending" -> "pending"
      [] status = "senttovendor" -> "pending"
      [] OTHER -> "failed"

StatusOutcomes == {"auth_failed", "http_error"} \cup ProviderStatuses

\* PaymentService.check_transaction_status
check_transaction_status(transaction_id, env) ==
    IF env = "auth_failed" THEN Failure("Authentication failed")
    ELSE IF env = "http_error" THEN Failure("Status check failed")
    ELSE LET status == lower(IF env = "Missing" THEN "Unknown" ELSE env)
             mapped_status == status_mapping(status)
         IN Result(TRUE, "", mapped_status, IF env = "Missing" THEN None ELSE env, "")

(***************************************************************************)
(* PaymentService.get_access_token: the token cache                        *)
(***************************************************************************)

\* the seconds before its expiry from which a cached token is not served
BUFFER_SECONDS == 30

\* token_data.get('expires_in', 300)
DEFAULT_EXPIRES_IN == 300

\* token_expires_at before the first token is stored (None; as 0.0, falsy)
NoExpiry == 0

\* the issuer's answer to one token request: raise_for_status or the POST
\* raising, a body without 'access_token', or a token with a lifetime, without
\* one, or with one that is no number
TokenAnswer(kind, n) == [kind |-> kind, expires_in |-> n]

NoAnswer == TokenAnswer("none", 0)

\* the lifetimes the issuer grants, in seconds
ExpiresIns == {30, 32}

TokenAnswers ==
    {TokenAnswer("ok", n) : n \in ExpiresIns}
    \cup {TokenAnswer("ok_no_expiry", 0), TokenAnswer("bad_expires_in", 0),
          TokenAnswer("http_error", 0), TokenAnswer("bad_body", 0)}

\* a cache that still serves a token at the instant its margin begins
cache_valid_inclusive(token, expires_at, current_time) ==
    /\ token # None /\ expires_at # NoExpiry
    /\ current_time <= expires_at - BUFFER_SECONDS

\* the test of get_access_token that serves the cached token
cache_valid(token, expires_at, current_time) ==
    /\ token # None /\ expires_at # NoExpiry
    /\ current_time < expires_at - BUFFER_SECONDS

\* token_data.get('expires_in', 300)
expires_in(token_data) ==
    IF token_data.kind = "ok_no_expiry" THEN DEFAULT_EXPIRES_IN ELSE token_data.expires_in

\* what one call of get_access_token returns and leaves in the cache, and
\* whether it sent a token request
TokenResult(ret, token, expires_at, requested) ==
    [ret |-> ret, token |-> token, expires_at |-> expires_at, requested |-> requested]

\* a get_access_token that falls back to the cached token, stale as it is,
\* when the issuer does not answer
get_access_token_serves_stale(token, expires_at, current_time, answer, new_token) ==
    IF cache_valid(token, expires_at, current_time)
    THEN TokenResult(token, token, expires_at, FALSE)
    ELSE IF answer.kind \in {"http_error", "bad_body"}
    THEN TokenResult(token, token, expires_at, TRUE)
    ELSE IF answer.kind = "bad_expires_in"
    THEN TokenResult(None, new_token, expires_at, TRUE)
    ELSE TokenResult(new_token, new_token, current_time + expires_in(answer), TRUE)

\* PaymentService.get_access_token run from its first statement to its
\* return, on the cache (token, expires_at) at instant current_time, the
\* issuer answering a token request with answer and granting new_token
get_access_token(token, expires_at, current_time, answer, new_token) ==
    IF cache_valid(token, expires_at, current_time)
    THEN TokenResult(token, token, expires_at, FALSE)
    ELSE IF answer.kind \in {"http_error", "bad_body"}
    THEN TokenResult(None, token, expires_at, TRUE)
    ELSE IF answer.kind = "bad_expires_in"
    THEN TokenResult(None, new_token, expires_at, TRUE)
    ELSE TokenResult(new_token, new_token, current_time + expires_in(answer), TRUE)

(***************************************************************************)
(* USSDHandler: the decision of one callback.  A flow either answers at    *)
(* once (act = "respond") or goes on to an operation on the provider or    *)
(* the store (act = "init", "retry", "confirm", "delete") with the user    *)
(* it works on.                                                            *)
(***************************************************************************)

Respond(response_type, message) ==
    [act |-> "respond", resp |-> create_response(response_type, message), user |-> EmptyDict]

Proceed(act, user) == [act |-> act, resp |-> NoResp, user |-> user]

T1 == <<"1">>

T2 == <<"2">>

\* roles_map.get(role_choice)
roles_map(role_choice) ==
    CASE role_choice = <<"1">> -> "Farmer"
      [] role_choice = <<"2">> -> "Buyer"
      [] role_choice = <<"3">> -> "Service Provider"
      [] OTHER -> None

\* package_map.get(pkg_choice)
package_map(pkg_choice) == IF pkg_choice = <<"1">> THEN "Yofarm Access" ELSE None

\* a flow that asks for the role again when the role token is not in the table
handle_new_user_flow_reprompts_role(phone, parts) ==
    IF Len(parts) = 0 THEN Respond("CON", M_WELCOME)
    ELSE IF parts[1] \notin {T1, T2} THEN Respond("END", M_INVALID_CHOICE)
    ELSE IF parts[1] = T2 THEN Respond("END", M_GOODBYE)
    ELSE IF Len(parts) = 1 THEN Respond("CON", M_ENTER_NAME)
    ELSE LET name == strip(parts[2]) IN
    IF name = <<>> THEN Respond("CON", M_ENTER_NAME)
    ELSE IF Len(parts) = 2 THEN Respond("CON", M_SELECT_ROLE)
    ELSE LET role == roles_map(parts[3]) IN
    IF role = None THEN Respond("CON", M_SELECT_ROLE)
    ELSE IF Len(parts) = 3 THEN Respond("CON", M_ENTER_LOCATION)
    ELSE LET location == strip(parts[4]) IN
    IF location = <<>> THEN Respond("CON", M_ENTER_LOCATION)
    ELSE IF Len(parts) = 4 THEN Respond("CON", M_TERMS)
    ELSE IF parts[5] \notin {T1, T2} THEN Respond("END", M_INVALID_INPUT)
    ELSE IF parts[5] = T2 THEN Respond("END", M_DECLINED)
    ELSE IF Len(parts) = 5 THEN Respond("CON", M_PACKAGES)
    ELSE LET package == package_map(parts[6]) IN
    IF package = None THEN Respond("END", M_INVALID_PACKAGE)
    ELSE IF Len(parts) = 6 THEN Respond("CON", M_PAY(package))
    ELSE IF parts[7] \notin {T1, T2} THEN Respond("END", M_INVALID_OPTION)
    ELSE IF parts[7] = T2 THEN Respond("END", M_CANCELLED)
    ELSE Proceed("init", User(phone, name, role, location, package))

\* a flow that goes on to the payment when the caller cancels at the pay step
handle_new_user_flow_pays_on_cancel(phone, parts) ==
    IF Len(parts) = 0 THEN Respond("CON", M_WELCOME)
    ELSE IF parts[1] \notin {T1, T2} THEN Respond("END", M_INVALID_CHOICE)
    ELSE IF parts[1] = T2 THEN Respond("END", M_GOODBYE)
    ELSE IF Len(parts) = 1 THEN Respond("CON", M_ENTER_NAME)
    ELSE LET name == strip(parts[2]) IN
    IF name = <<>> THEN Respond("CON", M_ENTER_NAME)
    ELSE IF Len(parts) = 2 THEN Respond("CON", M_SELECT_ROLE)
    ELSE LET role == roles_map(parts[3]) IN
    IF role = None THEN Respond("END", M_INVALID_ROLE)
    ELSE IF Len(parts) = 3 THEN Respond("CON", M_ENTER_LOCATION)
    ELSE LET location == strip(parts[4]) IN
    IF location = <<>> THEN Respond("CON", M_ENTER_LOCATION)
    ELSE IF Len(parts) = 4 THEN Respond("CON", M_TERMS)
    ELSE IF parts[5] \notin {T1, T2} THEN Respond("END", M_INVALID_INPUT)
    ELSE IF parts[5] = T2 THEN Respond("END", M_DECLINED)
    ELSE IF Len(parts) = 5 THEN Respond("CON", M_PACKAGES)
    ELSE LET package == package_map(parts[6]) IN
    IF package = None THEN Respond("END", M_INVALID_PACKAGE)
    ELSE IF Len(parts) = 6 THEN Respond("CON", M_PAY(package))
    ELSE IF parts[7] \notin {T1, T2} THEN Respond("END", M_INVALID_OPTION)
    ELSE Proceed("init", User(phone, name, role, location, package))

\* USSDHandler.handle_new_user_flow
handle_new_user_flow(phone, parts) ==
    IF Len(parts) = 0 THEN Respond("CON", M_WELCOME)
    ELSE IF parts[1] \notin {T1, T2} THEN Respond("END", M_INVALID_CHOICE)
    ELSE IF parts[1] = T2 THEN Respond("END", M_GOODBYE)
    ELSE IF Len(parts) = 1 THEN Respond("CON", M_ENTER_NAME)
    ELSE LET name == strip(parts[2]) IN
    IF name = <<>> THEN Respond("CON", M_ENTER_NAME)
    ELSE IF Len(parts) = 2 THEN Respond("CON", M_SELECT_ROLE)
    ELSE LET role == roles_map(parts[3]) IN
    IF role = None THEN Respond("END", M_INVALID_ROLE)
    ELSE IF Len(parts) = 3 THEN Respond("CON", M_ENTER_LOCATION)
    ELSE LET location == strip(parts[4]) IN
    IF location = <<>> THEN Respond("CON", M_ENTER_LOCATION)
    ELSE IF Len(parts) = 4 THEN Respond("CON", M_TERMS)
    ELSE IF parts[5] \notin {T1, T2} THEN Respond("END", M_INVALID_INPUT)
    ELSE IF parts[5] = T2 THEN Respond("END", M_DECLINED)
    ELSE IF Len(parts) = 5 THEN Respond("CON", M_PACKAGES)
    ELSE LET package == package_map(parts[6]) IN
    IF package = None THEN Respond("END", M_INVALID_PACKAGE)
    ELSE IF Len(parts) = 6 THEN Respond("CON", M_PAY(package))
    ELSE IF parts[7] \notin {T1, T2} THEN Respond("END", M_INVALID_OPTION)
    ELSE IF parts[7] = T2 THEN Respond("END", M_CANCELLED)
    ELSE Proceed("init", User(phone, name, role, location, package))

\* a flow that checks the payment of a failed user and retries that of a
\* pending one
handle_incomplete_registration_swapped(phone, parts, user) ==
    IF Len(parts) = 0 THEN
        IF {"package", "name"} \subseteq DOMAIN user
        THEN Respond("CON", M_INCOMPLETE(user.name,
                 IF user.status = "failed" THEN "1. Retry payment for {package}"
                 ELSE "1. Confirm payment for {package}", user.package))
        ELSE Respond("END", M_SERVICE_ERROR)
    ELSE IF parts[1] \notin {T1, T2} THEN Respond("END", M_INVALID_OPTION)
    ELSE IF parts[1] = T2 THEN Proceed("delete", user)
    ELSE IF user.status = "pending" THEN Proceed("retry", user)
    ELSE Proceed("confirm", user)

\* USSDHandler.handle_incomplete_registration; user['package'] and
\* user['name'] of a document without them raise KeyError
handle_incomplete_registration(phone, parts, user) ==
    IF Len(parts) = 0 THEN
        IF {"package", "name"} \subseteq DOMAIN user
        THEN Respond("CON", M_INCOMPLETE(user.name,
                 IF user.status = "failed" THEN "1. Retry payment for {package}"
                 ELSE "1. Confirm payment for {package}", user.package))
        ELSE Respond("END", M_SERVICE_ERROR)
    ELSE IF parts[1] \notin {T1, T2} THEN Respond("END", M_INVALID_OPTION)
    ELSE IF parts[1] = T2 THEN Proceed("delete", user)
    ELSE IF user.status = "failed" THEN Proceed("retry", user)
    ELSE Proceed("confirm", user)

\* a flow that acknowledges only the first option of the returning user
handle_registered_user_flow_buy_only(parts) ==
    IF Len(parts) = 0 THEN Respond("CON", M_REGISTERED_MENU)
    ELSE IF parts[1] # T1 THEN Respond("END", M_INVALID_OPTION)
    ELSE Respond("END", M_THANKS)

\* USSDHandler.handle_registered_user_flow
handle_registered_user_flow(parts) ==
    IF Len(parts) = 0 THEN Respond("CON", M_REGISTERED_MENU)
    ELSE IF parts[1] \notin {T1, T2} THEN Respond("END", M_INVALID_OPTION)
    ELSE Respond("END", M_THANKS)

\* USSDHandler.handle_ussd_request up to the flow's first operation;
\* user['status'] of a document without a status raises KeyError, caught
handle_ussd_request(db, phone_number, text) ==
    LET parts == parse_text(text)
        user == get_user(db, phone_number)
    IN IF user = EmptyDict THEN handle_new_user_flow(phone_number, parts)
       ELSE IF "status" \notin DOMAIN user THEN Respond("END", M_SERVICE_ERROR)
       ELSE IF user.status = "new" THEN handle_new_user_flow(phone_number, parts)
       ELSE IF user.status \in {"pending", "failed"}
            THEN handle_incomplete_registration(phone_number, parts, user)
       ELSE IF user.status = "registered" THEN handle_registered_user_flow(parts)
       ELSE Respond("END", M_UNAVAILABLE)

\* an initiation that forgets to set the status when the provider refuses
initiate_payment_keeps_new(db, user, payment_result) ==
    IF payment_result.success
    THEN [db |-> save_user(db, Merge(user, [transaction_id |-> payment_result.transaction_id,
                                             status |-> "pending"])),
          resp |-> create_response("END", M_SENT)]
    ELSE [db |-> save_user(db, user),
          resp |-> create_response("END", M_CANNOT_PROCESS)]

\* an initiation that saves the user before it has the transaction id
initiate_payment_drops_txn(db, user, payment_result) ==
    IF payment_result.success
    THEN [db |-> save_user(db, Merge(user, [status |-> "pending"])),
          resp |-> create_response("END", M_SENT)]
    ELSE [db |-> save_user(db, Merge(user, [status |-> "failed"])),
          resp |-> create_response("END", M_CANNOT_PROCESS)]

\* an initiation that saves nothing when the provider refuses
initiate_payment_skips_save(db, user, payment_result) ==
    IF payment_result.success
    THEN [db |-> save_user(db, Merge(user, [transaction_id |-> payment_result.transaction_id,
                                             status |-> "pending"])),
          resp |-> create_response("END", M_SENT)]
    ELSE [db |-> db, resp |-> create_response("END", M_CANNOT_PROCESS)]

\* the part of initiate_payment_for_new_user after the collection call:
\* what is saved and what is answered
initiate_payment_for_new_user(db, user, payment_result) ==
    IF payment_result.success
    THEN [db |-> save_user(db, Merge(user, [transaction_id |-> payment_result.transaction_id,
                                             status |-> "pending"])),
          resp |-> create_response("END", M_SENT)]
    ELSE [db |-> save_user(db, Merge(user, [status |-> "failed"])),
          resp |-> create_response("END", M_CANNOT_PROCESS)]

\* the part of retry_payment after the collection call
retry_payment(db, user, payment_result) ==
    IF payment_result.success
    THEN [db |-> update_user_status(db, user.phone, "pending", payment_result.transaction_id),
          resp |-> create_response("END", M_SENT)]
    ELSE [db |-> update_user_status(db, user.phone, "failed", ""),
          resp |-> create_response("END", M_CANNOT_PROCESS)]

\* the part of confirm_payment after a status check that succeeded;
\* user['phone'] of a record without it raises KeyError before the write,
\* user['name'], ['role'], ['location'] raise it after the write, and the
\* method's except answers
confirm_payment(db, user, status_result) ==
    LET new_status == status_result.status IN
    IF "phone" \notin DOMAIN user
    THEN [db |-> db, resp |-> create_response("END", M_CONFIRM_FAILED)]
    ELSE [db |-> update_user_status(db, user.phone, new_status, ""),
          resp |-> IF new_status = "registered"
                   THEN IF {"name", "role", "location"} \subseteq DOMAIN user
                        THEN create_response("END",
                                 M_CONGRATS(user.name, user.role, user.location))
                        ELSE create_response("END", M_CONFIRM_FAILED)
                   ELSE IF new_status = "failed" THEN create_response("END", M_PAYMENT_FAILED)
                   ELSE create_response("END", M_PAYMENT_PENDING)]

\* what one callback does: its response, the collection afterwards, the
\* requests it sent to the provider, and the token cache afterwards
Outcome(resp, db, requests, cache) ==
    [resp |-> resp, db |-> db, requests |-> requests, cache |-> cache]

\* the collection outcomes once a token is at hand
CollectAnswers == {"http_error", "ok"}

\* the status outcomes once a token is at hand
StatusAnswers == {"http_error", "Success", "Failed", "Pending"}

\* handle_ussd_request from its first statement to its return, handled by a
\* USSDHandler whose PaymentService holds the cache (token, expires_at), at
\* instant current_time, against the collection db; the issuer answers a
\* token request with answer (granting new_token) and the provider answers
\* the collection or status request with env (accepting it as id)
callback_outcome(token, expires_at, current_time, db, phone, text, answer, new_token, env, id) ==
    LET d == handle_ussd_request(db, phone, text)
        cache == TokenResult(None, token, expires_at, FALSE)
        t == get_access_token(token, expires_at, current_time, answer, new_token)
        penv == IF t.ret = None THEN "auth_failed" ELSE env
        asked == IF t.requested THEN <<"token">> ELSE <<>>
    IN IF d.act = "respond" THEN Outcome(d.resp, db, <<>>, cache)
       ELSE IF d.act = "delete"
       THEN Outcome(create_response("END", M_RESET), delete_user(db, phone), <<>>, cache)
       ELSE IF d.act = "confirm" /\ ~Truthy(Get(d.user, "transaction_id"))
       THEN Outcome(create_response("END", M_NO_TRANSACTION), db, <<>>, cache)
       ELSE IF d.act = "retry" /\ ~({"phone", "name"} \subseteq DOMAIN d.user)
       THEN Outcome(create_response("END", M_RETRY_FAILED), db, <<>>, cache)
       ELSE IF d.act = "confirm"
       THEN LET r == check_transaction_status(d.user.transaction_id, penv)
                p == IF r.success THEN confirm_payment(db, d.user, r)
                     ELSE [db |-> db, resp |-> create_response("END", M_UNABLE_TO_CHECK)]
            IN Outcome(p.resp, p.db,
                       asked \o (IF t.ret # None THEN <<"status">> ELSE <<>>), t)
       ELSE LET r == initiate_collection(d.user.phone, penv, id)
                p == IF d.act = "init" THEN initiate_payment_for_new_user(db, d.user, r)
                     ELSE retry_payment(db, d.user, r)
            IN Outcome(p.resp, p.db,
                       asked \o (IF t.ret # None /\ format_phone_number(d.user.phone) # NoPhone
                                 THEN <<"collection">> ELSE <<>>), t)

(***************************************************************************)
(* The system: callbacks handled by concurrent workers, the provider and   *)
(* its webhook notifications                                               *)
(***************************************************************************)

\* the most transaction ids the provider issues in a run
MaxTxn == 2

TxnIds == <<"T1", "T2", "T3", "T4">>

Workers == {"w1", "w2"}

\* the worker of a deployment that handles one request at a time
Worker1 == {"w1"}

\* a caller whose number normalises (0XXXXXXXXX) and one whose number does not
PhoneA == <<"0", "7", "0", "1", "2", "3", "4", "5", "6", "7">>

PhoneB == <<"+", "1", "2", "3", "4">>

Phones == {PhoneA, PhoneB}

RECURSIVE Join(_)
Join(parts) ==
    IF Len(parts) = 0 THEN <<>>
    ELSE IF Len(parts) = 1 THEN parts[1]
    ELSE parts[1] \o <<"*">> \o Join(Tail(parts))

\* the registrations that pass every step
ValidParts ==
    {<<T1, <<"a">>, <<"1">>, <<"k", " ">>, T1, T1, T1>>,
     <<T1, <<" ", "b">>, <<"3">>, <<"m">>, T1, T1, T1>>}

\* the accumulated texts the gateway sends
Texts ==
    {Join(ps) : ps \in ValidParts}
    \cup {<<>>, <<" ">>, NoneText, T1, T2, <<"9">>,
          Join(<<T1, <<" ">>, T1>>),
          Join(<<T1, <<"a">>, <<"9">>>>),
          Join(<<T1, <<"a">>, T1, <<"k">>, T2>>),
          Join(<<T1, <<"a">>, T1, <<"k">>, T1, T1, T2>>)}

\* the texts of one caller's callbacks that run concurrently
TextsConc == {Join(<<T1, <<"a">>, <<"1">>, <<"k", " ">>, T1, T1, T1>>), <<>>, T1, T2}

\* the statuses a notification carries; None is a payload without a status
WebhookStatuses == {"Completed", "failed", None}

\* the phones payment_webhook may work on: the payload's msisdn, else the
\* first user the query pending_txn == tx_id streams (any of them: the
\* stream's order is not fixed), else none
webhook_phone(db, tx_id, msisdn) ==
    IF msisdn # NoPhone THEN {msisdn}
    ELSE IF tx_id # None
    THEN LET found == {k \in DOMAIN db : Get(db[k], "pending_txn") = tx_id} IN
         IF found = {} THEN {NoPhone} ELSE found
    ELSE {NoPhone}

\* a webhook that answers a success notification for a user it has already
\* finalised with 409 Conflict
payment_webhook_rejects_duplicate(db, phone, status) ==
    IF status # None /\ lower(status) \in {"success", "completed", "paid"}
    THEN IF phone # NoPhone /\ phone \in DOMAIN db
         THEN LET data == db[phone]
                  user_obj == [phone |-> phone, name |-> Get(data, "name"),
                               role |-> Get(data, "role"), district |-> Get(data, "district"),
                               accepted_terms |-> TRUE, package |-> Get(data, "package"),
                               registered |-> TRUE]
                  merged == Merge(data, user_obj)
              IN IF "registered" \in DOMAIN data
                 THEN [db |-> db, code |-> 409]
                 ELSE [db |-> PutDoc(db, phone, DeleteField(merged, "pending_txn")),
                       code |-> 200]
         ELSE [db |-> db, code |-> 200]
    ELSE IF phone # NoPhone
         THEN IF phone \in DOMAIN db
              THEN [db |-> PutDoc(db, phone, Merge(db[phone], [payment_status |-> status])),
                    code |-> 200]
              ELSE [db |-> db, code |-> 500]
         ELSE [db |-> db, code |-> 200]

\* a webhook that records the raw status with set(..., merge=True), which
\* creates the document it does not find
payment_webhook_upserts_status(db, phone, status) ==
    IF status # None /\ lower(status) \in {"success", "completed", "paid"}
    THEN IF phone # NoPhone /\ phone \in DOMAIN db
         THEN LET data == db[phone]
                  user_obj == [phone |-> phone, name |-> Get(data, "name"),
                               role |-> Get(data, "role"), district |-> Get(data, "district"),
                               accepted_terms |-> TRUE, package |-> Get(data, "package"),
                               registered |-> TRUE]
                  merged == Merge(data, user_obj)
              IN [db |-> PutDoc(db, phone, DeleteField(merged, "pending_txn")), code |-> 200]
         ELSE [db |-> db, code |-> 200]
    ELSE IF phone # NoPhone
         THEN [db |-> PutDoc(db, phone, Merge(get_user(db, phone), [payment_status |-> status])),
               code |-> 200]
         ELSE [db |-> db, code |-> 200]

\* payment_webhook once the phone is known: the collection afterwards and
\* the HTTP status (update() of a missing document raises NotFound: a 500)
payment_webhook(db, phone, status) ==
    IF status # None /\ lower(status) \in {"success", "completed", "paid"}
    THEN IF phone # NoPhone /\ phone \in DOMAIN db
         THEN LET data == db[phone]
                  user_obj == [phone |-> phone, name |-> Get(data, "name"),
                               role |-> Get(data, "role"), district |-> Get(data, "district"),
                               accepted_terms |-> TRUE, package |-> Get(data, "package"),
                               registered |-> TRUE]
                  merged == Merge(data, user_obj)
              IN [db |-> PutDoc(db, phone, DeleteField(merged, "pending_txn")), code |-> 200]
         ELSE [db |-> db, code |-> 200]
    ELSE IF phone # NoPhone
         THEN IF phone \in DOMAIN db
              THEN [db |-> PutDoc(db, phone, Merge(db[phone], [payment_status |-> status])),
                    code |-> 200]
              ELSE [db |-> db, code |-> 500]
         ELSE [db |-> db, code |-> 200]

\* what a worker holds of the request it handles: a USSD callback (phone,
\* text, the flow's operation kind, the user it works on, the provider's
\* result, the number of initiate_collection calls, the response) or a
\* webhook notification (kind = "webhook": tx, wstatus, msisdn of the
\* payload, the phone it was resolved to, the HTTP status)
Local(phone, text, kind, user, res, calls, resp) ==
    [phone |-> phone, text |-> text, kind |-> kind, user |-> user, res |-> res,
     calls |-> calls, resp |-> resp, tx |-> None, wstatus |-> None,
     msisdn |-> NoPhone, code |-> 0]

IdleLoc == Local(NoPhone, <<>>, "none", EmptyDict, NoResult, 0, NoResp)

\* what is remembered of the callback answered last
Summary(l) ==
    [phone |-> l.phone, kind |-> l.kind, user |-> l.user, res |-> l.res, resp |-> l.resp]

NoSummary == Summary(IdleLoc)

\* the collection without any record
EmptyStore == [k \in {} |-> EmptyDict]

\* the latest instant of a run, and the most tokens the issuer grants in it
MaxTime == 3

MaxTok == 2

TokIds == <<"K1", "K2", "K3", "K4">>

\* the threads that call get_access_token on the one PaymentService
Callers == {"c1", "c2"}

Caller1 == {"c1"}

\* what a caller holds of its call of get_access_token: the cache and the
\* clock as it read them, whether it served the cache (hit), the issuer's
\* answer and token, the instant it stored the expiry, and what it returned
TokLocal(seen_token, seen_expires, seen_at, hit) ==
    [seen_token |-> seen_token, seen_expires |-> seen_expires, seen_at |-> seen_at,
     hit |-> hit, posted |-> FALSE, ans |-> NoAnswer, tok |-> None,
     stored_at |-> 0, ret |-> None]

IdleTok == TokLocal(None, NoExpiry, 0, FALSE)

\* no gateway session is open
NoSession == [open |-> FALSE, text |-> <<>>]

\* the store and the workers after start-up
SysInit ==
    /\ store = EmptyStore
    /\ pc = [w \in Workers |-> "idle"]
    /\ loc = [w \in Workers |-> IdleLoc]
    /\ nextTxn = 1
    /\ prev = NoSummary

\* PaymentService.__init__, at instant 0
TokInit ==
    /\ access_token = None
    /\ token_expires_at = NoExpiry
    /\ now = 0
    /\ tpc = [c \in Callers |-> "idle"]
    /\ tloc = [c \in Callers |-> IdleTok]
    /\ nextTok = 1
    /\ grants = [k \in {} |-> 0]

\* no pure function is being applied
FnInit == fin = <<>> /\ fout = [done |-> FALSE, val |-> <<>>]

\* the provider has received no request
ReqInit == sent = <<>>

Init == SysInit /\ TokInit /\ session = NoSession /\ FnInit /\ ReqInit

\* handle_ussd_request on the collection db as get_user reads it: the
\* dispatch on the status and the flow up to its answer or its first
\* operation.  retry_payment's arguments user['phone'] and user['name'] raise
\* KeyError on a record without them, before the collection call
Handle(w, phone, text, db) ==
    /\ pc[w] = "idle"
    /\ LET d == handle_ussd_request(db, phone, text) IN
       IF d.act = "respond"
       THEN /\ pc' = [pc EXCEPT ![w] = "done"]
            /\ loc' = [loc EXCEPT ![w] = Local(phone, text, "respond", EmptyDict,
                                               NoResult, 0, d.resp)]
       ELSE IF d.act = "confirm" /\ ~Truthy(Get(d.user, "transaction_id"))
       THEN /\ pc' = [pc EXCEPT ![w] = "done"]
            /\ loc' = [loc EXCEPT ![w] = Local(phone, text, "confirm", d.user, NoResult, 0,
                                               create_response("END", M_NO_TRANSACTION))]
       ELSE IF d.act = "retry" /\ ~({"phone", "name"} \subseteq DOMAIN d.user)
       THEN /\ pc' = [pc EXCEPT ![w] = "done"]
            /\ loc' = [loc EXCEPT ![w] = Local(phone, text, "retry", d.user, NoResult, 0,
                                               create_response("END", M_RETRY_FAILED))]
       ELSE /\ pc' = [pc EXCEPT ![w] = IF d.act = "delete" THEN "write" ELSE "call"]
            /\ loc' = [loc EXCEPT ![w] = Local(phone, text, d.act, d.user, NoResult, 0, NoResp)]
    /\ UNCHANGED <<store, nextTxn, prev>>

\* handle_ussd_request with a store that answers
Callback(w, phone, text) == Handle(w, phone, text, store)

\* handle_ussd_request when the read of the record raises: get_user catches
\* it and returns None
CallbackStoreDown(w, phone, text) == Handle(w, phone, text, EmptyStore)

\* a collection call that is made again when the provider refuses it
Collect_again_on_failure(w, env) ==
    /\ pc[w] = "call"
    /\ loc[w].kind \in {"init", "retry"}
    /\ env \in {"ok", "ok_no_id"} => nextTxn <= MaxTxn
    /\ LET r == initiate_collection(loc[w].user.phone, env, TxnIds[nextTxn]) IN
       /\ loc' = [loc EXCEPT ![w].res = r, ![w].calls = @ + 1]
       /\ nextTxn' = IF r.success THEN nextTxn + 1 ELSE nextTxn
       /\ pc' = [pc EXCEPT ![w] = IF r.success \/ loc[w].calls > 0 THEN "write" ELSE "call"]
    /\ UNCHANGED <<store, prev>>

\* self.payment.initiate_collection(...) of initiate_payment_for_new_user and
\* of retry_payment; the provider issues the next transaction id when it
\* accepts the request
Collect(w, env) ==
    /\ pc[w] = "call"
    /\ loc[w].kind \in {"init", "retry"}
    /\ env \in {"ok", "ok_no_id"} => nextTxn <= MaxTxn
    /\ LET r == initiate_collection(loc[w].user.phone, env, TxnIds[nextTxn]) IN
       /\ loc' = [loc EXCEPT ![w].res = r, ![w].calls = @ + 1]
       /\ nextTxn' = IF r.success THEN nextTxn + 1 ELSE nextTxn
    /\ pc' = [pc EXCEPT ![w] = "write"]
    /\ UNCHANGED <<store, prev>>

\* a confirmation that does not look at the success of the status check
CheckStatus_ignores_failure(w, env) ==
    /\ pc[w] = "call"
    /\ loc[w].kind = "confirm"
    /\ LET r == check_transaction_status(loc[w].user.transaction_id, env) IN
       /\ loc' = [loc EXCEPT ![w].res = r]
       /\ pc' = [pc EXCEPT ![w] = "write"]
    /\ UNCHANGED <<store, nextTxn, prev>>

\* self.payment.check_transaction_status(user['transaction_id']) of
\* confirm_payment; a failed check is answered without a write
CheckStatus(w, env) ==
    /\ pc[w] = "call"
    /\ loc[w].kind = "confirm"
    /\ LET r == check_transaction_status(loc[w].user.transaction_id, env) IN
       /\ loc' = [loc EXCEPT ![w].res = r,
                             ![w].resp = IF r.success THEN NoResp
                                         ELSE create_response("END", M_UNABLE_TO_CHECK)]
       /\ pc' = [pc EXCEPT ![w] = IF r.success THEN "write" ELSE "done"]
    /\ UNCHANGED <<store, nextTxn, prev>>

\* the write that ends a flow, and its answer; when the store raises,
\* save_user, update_user_status and delete_user catch it and return False,
\* which no caller looks at
Finish(w, store_ok) ==
    /\ pc[w] = "write"
    /\ LET l == loc[w]
           r == CASE l.kind = "init" -> initiate_payment_for_new_user(store, l.user, l.res)
                  [] l.kind = "retry" -> retry_payment(store, l.user, l.res)
                  [] l.kind = "confirm" -> confirm_payment(store, l.user, l.res)
                  [] l.kind = "delete" -> [db |-> delete_user(store, l.phone),
                                           resp |-> create_response("END", M_RESET)]
       IN /\ store' = IF store_ok THEN r.db ELSE store
          /\ loc' = [loc EXCEPT ![w].resp = r.resp]
    /\ pc' = [pc EXCEPT ![w] = "done"]
    /\ UNCHANGED <<nextTxn, prev>>

\* the write with a store that answers
Persist(w) == Finish(w, TRUE)

\* the write when the store raises
PersistStoreDown(w) == Finish(w, FALSE)

\* the response leaves: the worker is free again
Return(w) ==
    /\ pc[w] = "done"
    /\ pc' = [pc EXCEPT ![w] = "idle"]
    /\ loc' = [loc EXCEPT ![w] = IdleLoc]
    /\ UNCHANGED <<store, nextTxn, prev>>

\* the same, remembering the callback that was answered
ReturnRecord(w) ==
    /\ pc[w] = "done"
    /\ pc' = [pc EXCEPT ![w] = "idle"]
    /\ loc' = [loc EXCEPT ![w] = IdleLoc]
    /\ prev' = Summary(loc[w])
    /\ UNCHANGED <<store, nextTxn>>

\* the transaction ids the provider has issued
Issued == {TxnIds[i] : i \in 1..(nextTxn - 1)}

\* one notification pushed by the provider, handled by payment_webhook
Webhook(w, tx_id, status, msisdn) ==
    /\ pc[w] = "idle"
    /\ \E phone \in webhook_phone(store, tx_id, msisdn) :
         LET r == payment_webhook(store, phone, status) IN
         /\ store' = r.db
         /\ loc' = [loc EXCEPT ![w] = [IdleLoc EXCEPT !.kind = "webhook", !.phone = phone,
                                          !.tx = tx_id, !.wstatus = status,
                                          !.msisdn = msisdn, !.code = r.code]]
    /\ pc' = [pc EXCEPT ![w] = "done"]
    /\ UNCHANGED <<nextTxn, prev>>

(***************************************************************************)
(* The callbacks of one caller over a record of any shape, with a store    *)
(* that may raise on a read or on a write                                   *)
(***************************************************************************)

\* the values a record's status holds; 'suspended' is none the handler knows
ShapeStatuses == {"new", "pending", "failed", "registered", "suspended"}

\* the fields a record lacks
ShapeDrops ==
    {{}, {"status"}, {"name"}, {"package"}, {"phone"}, {"transaction_id"},
     {"name", "role", "location"},
     {"phone", "name", "role", "location", "package", "status", "transaction_id",
      "created_at", "updated_at"}}

\* the record of a caller with this status and transaction id, without the
\* fields of drop
Shape(status, transaction_id, drop) ==
    LET full == Merge(User(PhoneA, <<"a">>, "Farmer", <<"k">>, "Yofarm Access"),
                      [status |-> status, transaction_id |-> transaction_id])
    IN [f \in (DOMAIN full) \ drop |-> full[f]]

Shapes == {Shape(st, tx, drop) : st \in ShapeStatuses, tx \in {"", "T1"}, drop \in ShapeDrops}

\* the collection holds no record, or one record of any shape for the caller;
\* the provider has issued T1
InitShapes ==
    /\ store \in {EmptyStore} \cup {PutDoc(EmptyStore, PhoneA, doc) : doc \in Shapes}
    /\ pc = [w \in Workers |-> "idle"]
    /\ loc = [w \in Workers |-> IdleLoc]
    /\ nextTxn = 2
    /\ prev = NoSummary
    /\ TokInit /\ session = NoSession /\ FnInit /\ ReqInit

NextShapes ==
    \/ \E w \in Worker1, text \in TextsConc : Callback(w, PhoneA, text)
          /\ UNCHANGED auxVars
    \/ \E w \in Worker1, text \in TextsConc : CallbackStoreDown(w, PhoneA, text)
          /\ UNCHANGED auxVars
    \/ \E w \in Worker1, env \in CollectOutcomes : Collect(w, env)
          /\ UNCHANGED auxVars
    \/ \E w \in Worker1, env \in StatusOutcomes : CheckStatus(w, env)
          /\ UNCHANGED auxVars
    \/ \E w \in Worker1 : Persist(w)
          /\ UNCHANGED auxVars
    \/ \E w \in Worker1 : PersistStoreDown(w)
          /\ UNCHANGED auxVars
    \/ \E w \in Worker1 : Return(w)
          /\ UNCHANGED auxVars

SpecShapes == InitShapes /\ [][NextShapes]_vars

(***************************************************************************)
(* A gateway session of one caller: the first callback carries the empty   *)
(* text, every later one the text so far, '*', and what the caller typed;   *)
(* an END response closes the session.                                     *)
(***************************************************************************)

\* the most submissions of one session
MaxInputs == 7

\* what the caller types at a prompt
Inputs == {<<"1">>, <<"2">>, <<"9">>, <<" ">>, <<"a">>}

\* the caller dials the code
Dial(w) ==
    /\ ~session.open
    /\ Callback(w, PhoneA, <<>>)
    /\ session' = [open |-> TRUE, text |-> <<>>]
    /\ UNCHANGED <<tokVars, fnVars, reqVars>>

\* the caller answers the prompt of the CON response
Submit(w, input) ==
    /\ session.open
    /\ session.text # <<>> => Len(split(session.text)) < MaxInputs
    /\ LET text == IF session.text = <<>> THEN input
                   ELSE session.text \o <<"*">> \o input
       IN /\ Callback(w, PhoneA, text)
          /\ session' = [open |-> TRUE, text |-> text]
    /\ UNCHANGED <<tokVars, fnVars, reqVars>>

\* the response reaches the gateway, which keeps the session open on CON
SessionReturn(w) ==
    /\ Return(w)
    /\ session' = IF loc[w].resp.response_type = "CON" THEN session ELSE NoSession
    /\ UNCHANGED <<tokVars, fnVars, reqVars>>

NextSession ==
    \/ \E w \in Worker1 : Dial(w)
    \/ \E w \in Worker1, input \in Inputs : Submit(w, input)
    \/ \E w \in Worker1, env \in CollectOutcomes : Collect(w, env)
          /\ UNCHANGED auxVars
    \/ \E w \in Worker1, env \in StatusOutcomes : CheckStatus(w, env)
          /\ UNCHANGED auxVars
    \/ \E w \in Worker1 : Persist(w)
          /\ UNCHANGED auxVars
    \/ \E w \in Worker1 : SessionReturn(w)

SpecSession == Init /\ [][NextSession]_vars

(***************************************************************************)
(* The pure functions, applied to one argument                             *)
(***************************************************************************)

\* the result of a function that has been applied, and no result yet
Out(val) == [done |-> TRUE, val |-> val]

NoOut == [done |-> FALSE, val |-> <<>>]

\* the longest raw text
MaxRaw == 3

RawChars == {" ", "\t", "*", "a", "1"}

\* the raw texts: no text at all, and every text up to MaxRaw characters
RawTexts == {NoneText} \cup UNION {[1..n -> RawChars] : n \in 0..MaxRaw}

InitParse == SysInit /\ TokInit /\ session = NoSession /\ ReqInit /\ fin \in RawTexts /\ fout = NoOut

\* self.parse_text(text)
ParseText ==
    /\ ~fout.done
    /\ fout' = Out(parse_text(fin))
    /\ UNCHANGED <<fin, sysVars, tokVars, session, reqVars>>

NextParse == ParseText

SpecParse == InitParse /\ [][NextParse]_vars

\* the most digits of a raw phone
MaxDigits == 13

DigitSeeds ==
    {<<"2", "5", "6", "7", "0", "1", "2", "3", "4", "5", "6", "7", "8", "9", "0">>,
     <<"0", "7", "0", "1", "2", "3", "4", "5", "6", "7", "8", "9", "0", "1", "2">>,
     <<"7", "0", "1", "2", "3", "4", "5", "6", "7", "8", "9", "0", "1", "2", "3">>}

\* the ways a number is written: bare, with a leading '+', with a space
\* after the third character, and with a trailing letter
Written(d) ==
    {d, <<"+">> \o d, d \o <<"x">>,
     IF Len(d) > 3 THEN SubSeq(d, 1, 3) \o <<" ">> \o SubSeq(d, 4, Len(d)) ELSE <<" ">> \o d}

RawPhones == UNION {Written(SubSeq(d, 1, n)) : d \in DigitSeeds, n \in 0..MaxDigits}

InitPhone == SysInit /\ TokInit /\ session = NoSession /\ ReqInit /\ fin \in RawPhones /\ fout = NoOut

\* self.format_phone_number(phone)
FormatPhone ==
    /\ ~fout.done
    /\ fout' = Out(format_phone_number(fin))
    /\ UNCHANGED <<fin, sysVars, tokVars, session, reqVars>>

NextPhone == FormatPhone

SpecPhone == InitPhone /\ [][NextPhone]_vars

\* the most tokens of a callback's text
MaxTokens == 8

\* what a token is: a menu choice, a blank, or a word
TokenChoices == {<<"1">>, <<"2">>, <<" ">>, <<"a">>}

\* the token lists of at most n tokens
RECURSIVE TokenLists(_)
TokenLists(n) ==
    IF n = 0 THEN {<<>>}
    ELSE LET shorter == TokenLists(n - 1) IN
         shorter \cup {Append(ps, t) : ps \in {qs \in shorter : Len(qs) = n - 1},
                                       t \in TokenChoices}

\* a callback of a caller without a record, with any text of up to MaxTokens
\* tokens joined by '*'
InitFlow ==
    /\ SysInit /\ TokInit /\ session = NoSession /\ ReqInit
    /\ fin \in {Join(ps) : ps \in TokenLists(MaxTokens)}
    /\ fout = NoOut

\* self.handle_ussd_request(phone_number, text) up to the flow's answer or
\* its call of initiate_payment_for_new_user
NewUserFlow ==
    /\ ~fout.done
    /\ fout' = Out(handle_ussd_request(store, PhoneA, fin))
    /\ UNCHANGED <<fin, sysVars, tokVars, session, reqVars>>

NextFlow == NewUserFlow

SpecFlow == InitFlow /\ [][NextFlow]_vars

(***************************************************************************)
(* get_access_token, statement by statement.  The cache is two attributes  *)
(* of the one PaymentService, read and written without a lock.             *)
(***************************************************************************)

\* lines 104-107: read the cache and the clock, and decide
TokCheck(c) ==
    /\ tpc[c] = "idle"
    /\ LET hit == cache_valid(access_token, token_expires_at, now) IN
       /\ tloc' = [tloc EXCEPT ![c] = TokLocal(access_token, token_expires_at, now, hit)]
       /\ tpc' = [tpc EXCEPT ![c] = IF hit THEN "return" ELSE "post"]
    /\ UNCHANGED <<access_token, token_expires_at, now, nextTok, grants>>

\* lines 118-121: the token request and the issuer's answer; an error
\* answer raises, is caught, and None is returned
TokPost(c, answer) ==
    /\ tpc[c] = "post"
    /\ IF answer.kind \in {"http_error", "bad_body"}
       THEN /\ tloc' = [tloc EXCEPT ![c].posted = TRUE, ![c].ans = answer, ![c].ret = None]
            /\ tpc' = [tpc EXCEPT ![c] = "done"]
            /\ UNCHANGED nextTok
       ELSE /\ nextTok <= MaxTok
            /\ tloc' = [tloc EXCEPT ![c].posted = TRUE, ![c].ans = answer,
                                    ![c].tok = TokIds[nextTok]]
            /\ tpc' = [tpc EXCEPT ![c] = "set_token"]
            /\ nextTok' = nextTok + 1
    /\ UNCHANGED <<access_token, token_expires_at, now, grants>>

\* line 122: self.access_token = token_data['access_token']; then line 124
\* raises TypeError if expires_in is no number, and None is returned
TokSetToken(c) ==
    /\ tpc[c] = "set_token"
    /\ access_token' = tloc[c].tok
    /\ IF tloc[c].ans.kind = "bad_expires_in"
       THEN /\ tpc' = [tpc EXCEPT ![c] = "done"]
            /\ tloc' = [tloc EXCEPT ![c].ret = None]
       ELSE /\ tpc' = [tpc EXCEPT ![c] = "set_expiry"]
            /\ UNCHANGED tloc
    /\ UNCHANGED <<token_expires_at, now, nextTok, grants>>

\* lines 123-124: self.token_expires_at = now + expires_in
TokSetExpiry(c) ==
    /\ tpc[c] = "set_expiry"
    /\ token_expires_at' = now + expires_in(tloc[c].ans)
    /\ grants' = [k \in (DOMAIN grants) \cup {tloc[c].tok} |->
                    IF k = tloc[c].tok THEN now + expires_in(tloc[c].ans) ELSE grants[k]]
    /\ tloc' = [tloc EXCEPT ![c].stored_at = now]
    /\ tpc' = [tpc EXCEPT ![c] = "return"]
    /\ UNCHANGED <<access_token, now, nextTok>>

\* lines 108 and 127: return self.access_token
TokReturn(c) ==
    /\ tpc[c] = "return"
    /\ tloc' = [tloc EXCEPT ![c].ret = access_token]
    /\ tpc' = [tpc EXCEPT ![c] = "done"]
    /\ UNCHANGED <<access_token, token_expires_at, now, nextTok, grants>>

\* the caller goes on with what it was returned
TokDone(c) ==
    /\ tpc[c] = "done"
    /\ tloc' = [tloc EXCEPT ![c] = IdleTok]
    /\ tpc' = [tpc EXCEPT ![c] = "idle"]
    /\ UNCHANGED <<access_token, token_expires_at, now, nextTok, grants>>

\* a second passes
Tick ==
    /\ now < MaxTime
    /\ now' = now + 1
    /\ UNCHANGED <<access_token, token_expires_at, tpc, tloc, nextTok, grants>>

\* get_access_token called by one caller at a time
NextTok ==
    \/ \E c \in Caller1 : TokCheck(c) /\ UNCHANGED <<sysVars, session, fnVars, reqVars>>
    \/ \E c \in Caller1, answer \in TokenAnswers : TokPost(c, answer)
          /\ UNCHANGED <<sysVars, session, fnVars, reqVars>>
    \/ \E c \in Caller1 : TokSetToken(c) /\ UNCHANGED <<sysVars, session, fnVars, reqVars>>
    \/ \E c \in Caller1 : TokSetExpiry(c) /\ UNCHANGED <<sysVars, session, fnVars, reqVars>>
    \/ \E c \in Caller1 : TokReturn(c) /\ UNCHANGED <<sysVars, session, fnVars, reqVars>>
    \/ \E c \in Caller1 : TokDone(c) /\ UNCHANGED <<sysVars, session, fnVars, reqVars>>
    \/ Tick /\ UNCHANGED <<sysVars, session, fnVars, reqVars>>

SpecTok == Init /\ [][NextTok]_vars

\* get_access_token called by concurrent callers
NextTokConc ==
    \/ \E c \in Callers : TokCheck(c) /\ UNCHANGED <<sysVars, session, fnVars, reqVars>>
    \/ \E c \in Callers, answer \in TokenAnswers : TokPost(c, answer)
          /\ UNCHANGED <<sysVars, session, fnVars, reqVars>>
    \/ \E c \in Callers : TokSetToken(c) /\ UNCHANGED <<sysVars, session, fnVars, reqVars>>
    \/ \E c \in Callers : TokSetExpiry(c) /\ UNCHANGED <<sysVars, session, fnVars, reqVars>>
    \/ \E c \in Callers : TokReturn(c) /\ UNCHANGED <<sysVars, session, fnVars, reqVars>>
    \/ \E c \in Callers : TokDone(c) /\ UNCHANGED <<sysVars, session, fnVars, reqVars>>
    \/ Tick /\ UNCHANGED <<sysVars, session, fnVars, reqVars>>

SpecTokConc == Init /\ [][NextTokConc]_vars

(***************************************************************************)
(* One handler instance serving callbacks one after the other: each is     *)
(* handle_ussd_request run to its return on the instance's token cache.    *)
(***************************************************************************)

\* the callback an instance was given: the cache and the clock it met, the
\* collection, the request, and what the issuer and the provider answer
Given(text, answer, env) ==
    [token |-> access_token, expires_at |-> token_expires_at, now |-> now, db |-> store,
     phone |-> PhoneA, text |-> text, answer |-> answer, new_token |-> TokIds[nextTok],
     env |-> env, id |-> TxnIds[nextTxn]]

\* the answers of the issuer a callback with this decision can meet
IssuerAnswers(d) ==
    IF d.act \in {"init", "retry", "confirm"}
    THEN {a \in TokenAnswers : a.kind \in {"ok", "bad_expires_in", "http_error"}}
    ELSE {NoAnswer}

\* the answers of the provider a callback with this decision can meet
ProviderAnswers(d) ==
    IF d.act \in {"init", "retry"} THEN CollectAnswers
    ELSE IF d.act = "confirm" THEN StatusAnswers
    ELSE {"none"}

\* the instance handles one callback of the caller
Serve(text) ==
    LET d == handle_ussd_request(store, PhoneA, text) IN
    \E answer \in IssuerAnswers(d), env \in ProviderAnswers(d) :
    \E out \in {callback_outcome(access_token, token_expires_at, now, store, PhoneA, text,
                                  answer, TokIds[nextTok], env, TxnIds[nextTxn])} :
       /\ nextTok <= MaxTok
       /\ nextTxn <= MaxTxn
       /\ fin' = Given(text, answer, env)
       /\ fout' = Out(out)
       /\ store' = out.db
       /\ access_token' = out.cache.token
       /\ token_expires_at' = out.cache.expires_at
       /\ nextTok' = IF out.cache.requested
                        /\ answer.kind \in {"ok", "ok_no_expiry", "bad_expires_in"}
                     THEN nextTok + 1 ELSE nextTok
       /\ nextTxn' = IF out.requests # <<>>
                        /\ out.requests[Len(out.requests)] = "collection"
                        /\ env \in {"ok", "ok_no_id"}
                     THEN nextTxn + 1 ELSE nextTxn
       /\ UNCHANGED <<pc, loc, prev, now, tpc, tloc, grants, session, reqVars>>

NextInstance ==
    \/ \E text \in TextsConc : Serve(text)
    \/ Tick /\ UNCHANGED <<sysVars, session, fnVars, reqVars>>

SpecInstance == Init /\ [][NextInstance]_vars

\* one request at a time: callbacks and notifications, for every caller
Next ==
    \/ \E w \in Worker1, phone \in Phones, text \in Texts : Callback(w, phone, text)
          /\ UNCHANGED auxVars
    \/ \E w \in Worker1, env \in CollectOutcomes : Collect(w, env)
          /\ UNCHANGED auxVars
    \/ \E w \in Worker1, env \in StatusOutcomes : CheckStatus(w, env)
          /\ UNCHANGED auxVars
    \/ \E w \in Worker1 : Persist(w)
          /\ UNCHANGED auxVars
    \/ \E w \in Worker1 : Return(w)
          /\ UNCHANGED auxVars
    \/ \E w \in Worker1, tx_id \in Issued \cup {None}, status \in WebhookStatuses,
          msisdn \in Phones \cup {NoPhone} : Webhook(w, tx_id, status, msisdn)
          /\ UNCHANGED auxVars

Spec == Init /\ [][Next]_vars

\* callbacks of one caller handled concurrently
NextConc ==
    \/ \E w \in Workers, text \in TextsConc : Callback(w, PhoneA, text)
          /\ UNCHANGED auxVars
    \/ \E w \in Workers, env \in CollectOutcomes : Collect(w, env)
          /\ UNCHANGED auxVars
    \/ \E w \in Workers, env \in StatusOutcomes : CheckStatus(w, env)
          /\ UNCHANGED auxVars
    \/ \E w \in Workers : Persist(w)
          /\ UNCHANGED auxVars
    \/ \E w \in Workers : Return(w)
          /\ UNCHANGED auxVars

SpecConc == Init /\ [][NextConc]_vars

\* one caller's callbacks one at a time, the callback answered last remembered
NextHist ==
    \/ \E w \in Worker1, text \in TextsConc : Callback(w, PhoneA, text)
          /\ UNCHANGED auxVars
    \/ \E w \in Worker1, env \in CollectOutcomes : Collect(w, env)
          /\ UNCHANGED auxVars
    \/ \E w \in Worker1, env \in StatusOutcomes : CheckStatus(w, env)
          /\ UNCHANGED auxVars
    \/ \E w \in Worker1 : Persist(w)
          /\ UNCHANGED auxVars
    \/ \E w \in Worker1 : ReturnRecord(w)
          /\ UNCHANGED auxVars

SpecHist == Init /\ [][NextHist]_vars

(***************************************************************************)
(* One callback at a time with a provider that may never answer: the       *)
(* requests.post and requests.get of get_access_token, initiate_collection *)
(* and check_transaction_status are given no timeout, so the worker leaves *)
(* its call only on an answer (or an error) of the provider.               *)
(***************************************************************************)

NextWait ==
    \/ \E w \in Worker1, text \in TextsConc : Callback(w, PhoneA, text)
          /\ UNCHANGED auxVars
    \/ \E w \in Worker1, env \in CollectOutcomes : Collect(w, env)
          /\ UNCHANGED auxVars
    \/ \E w \in Worker1, env \in StatusOutcomes : CheckStatus(w, env)
          /\ UNCHANGED auxVars
    \/ \E w \in Worker1 : Persist(w)
          /\ UNCHANGED auxVars
    \/ \E w \in Worker1 : Return(w)
          /\ UNCHANGED auxVars

\* the steps the worker takes by itself: the write and the return
WorkerStep == \E w \in Worker1 : (Persist(w) \/ Return(w)) /\ UNCHANGED auxVars

\* the worker runs whenever it can; nothing makes the provider answer
SpecWait == Init /\ [][NextWait]_vars /\ WF_vars(WorkerStep)

(***************************************************************************)
(* The external ids of the collection requests: one caller's callbacks one *)
(* at a time, on a clock that counts the seconds int(timestamp()) keeps.   *)
(***************************************************************************)

\* the most collection requests of a run
MaxSent == 3

\* f"REG_{phone}_{int(datetime.now().timestamp())}" and its RETRY_ twin
external_id(prefix, phone, second) ==
    [prefix |-> prefix, phone |-> phone, second |-> second]

\* whether initiate_collection gets as far as its requests.post
Posts(phone, env) == env # "auth_failed" /\ format_phone_number(phone) # NoPhone

\* payload['payer'] of a collection request for the caller whose normalised
\* number is formatted_phone
payer(formatted_phone) == <<"0", "1", "1", "1", "7", "7", "7", "7", "7", "7">>

\* a collection request as the provider receives it, and the id of its answer
Request(ext, result) ==
    [external_id |-> ext, payer |-> payer(format_phone_number(ext.phone)),
     success |-> result.success, id |-> result.transaction_id]

\* the collection call of a worker, its request logged when it is posted
CollectSent(w, env) ==
    /\ Collect(w, env)
    /\ Len(sent) < MaxSent
    /\ sent' = IF Posts(loc[w].user.phone, env)
               THEN Append(sent, Request(external_id(IF loc[w].kind = "init" THEN "REG"
                                                     ELSE "RETRY",
                                                     loc[w].user.phone, now),
                                         loc'[w].res))
               ELSE sent

NextIds ==
    \/ \E w \in Worker1, text \in TextsConc : Callback(w, PhoneA, text)
          /\ UNCHANGED auxVars
    \/ \E w \in Worker1, env \in CollectOutcomes : CollectSent(w, env)
          /\ UNCHANGED <<tokVars, session, fnVars>>
    \/ \E w \in Worker1, env \in StatusOutcomes : CheckStatus(w, env)
          /\ UNCHANGED auxVars
    \/ \E w \in Worker1 : Persist(w)
          /\ UNCHANGED auxVars
    \/ \E w \in Worker1 : Return(w)
          /\ UNCHANGED auxVars
    \/ Tick /\ UNCHANGED <<sysVars, session, fnVars, reqVars>>

SpecIds == Init /\ [][NextIds]_vars

\* the answers the provider gives in a race: a refusal, an acceptance, and a
\* reported failure of the payment
RaceCollectOutcomes == {"http_error", "ok"}

RaceStatusOutcomes == {"http_error", "Failed"}

\* callbacks of one caller handled concurrently, the collection requests logged
NextRace ==
    \/ \E w \in Workers, text \in TextsConc : Callback(w, PhoneA, text)
          /\ UNCHANGED auxVars
    \/ \E w \in Workers, env \in RaceCollectOutcomes : CollectSent(w, env)
          /\ UNCHANGED <<tokVars, session, fnVars>>
    \/ \E w \in Workers, env \in RaceStatusOutcomes : CheckStatus(w, env)
          /\ UNCHANGED auxVars
    \/ \E w \in Workers : Persist(w)
          /\ UNCHANGED auxVars
    \/ \E w \in Workers : Return(w)
          /\ UNCHANGED auxVars

SpecRace == Init /\ [][NextRace]_vars

(***************************************************************************)
(* One callback from its first statement to its return, on any cache, for  *)
(* a caller whose number normalises and one whose number does not.         *)
(***************************************************************************)

\* the token cache as a callback finds it at instant 1: empty, holding a
\* token that is still served, holding one that is past its margin
Caches ==
    {[token |-> None, expires_at |-> NoExpiry],
     [token |-> "K1", expires_at |-> 32],
     [token |-> "K1", expires_at |-> 31]}

\* the collection as a callback of phone finds it: no record, or the record
\* of an attempt T1 that failed or is pending
StoresOf(phone) ==
    {EmptyStore}
    \cup {PutDoc(EmptyStore, phone,
                 Merge(User(phone, <<"a">>, "Farmer", <<"k">>, "Yofarm Access"),
                       [status |-> st, transaction_id |-> "T1"])) :
          st \in {"failed", "pending"}}

\* the callbacks and what they meet
OutcomeInputs ==
    {[token |-> c.token, expires_at |-> c.expires_at, now |-> 1, db |-> db,
      phone |-> phone, text |-> text, answer |-> answer, new_token |-> "K2",
      env |-> env, id |-> "T2"] :
        c \in Caches, phone \in Phones, db \in UNION {StoresOf(ph) : ph \in Phones},
        text \in TextsConc, answer \in TokenAnswers,
        env \in CollectAnswers \cup StatusAnswers}

InitOutcome ==
    /\ SysInit /\ TokInit /\ session = NoSession /\ ReqInit
    /\ fin \in {g \in OutcomeInputs :
                  /\ DOMAIN g.db \subseteq {g.phone}
                  /\ g.env \in ProviderAnswers(handle_ussd_request(g.db, g.phone, g.text))}
    /\ fout = NoOut

\* self.handle_ussd_request(phone_number, text), to its return
HandleRequest ==
    /\ ~fout.done
    /\ fout' = Out(callback_outcome(fin.token, fin.expires_at, fin.now, fin.db, fin.phone,
                                    fin.text, fin.answer, fin.new_token, fin.env, fin.id))
    /\ UNCHANGED <<fin, sysVars, tokVars, session, reqVars>>

NextOutcome == HandleRequest

SpecOutcome == InitOutcome /\ [][NextOutcome]_vars

(***************************************************************************)
(* Properties                                                              *)
(***************************************************************************)

\* a text whose seven tokens pass every step of the registration
Valid7(parts) ==
    /\ Len(parts) = 7
    /\ parts[1] = <<"1">>
    /\ strip(parts[2]) # <<>>
    /\ parts[3] \in {<<"1">>, <<"2">>, <<"3">>}
    /\ strip(parts[4]) # <<>>
    /\ parts[5] = <<"1">>
    /\ parts[6] = <<"1">>
    /\ parts[7] = <<"1">>

\* the caller has no record, or one with status 'new'
IsNew(db, phone) == phone \notin DOMAIN db \/ Get(db[phone], "status") = "new"

\* a worker has answered a USSD callback of this kind
Answered(w, kind) == pc[w] = "done" /\ loc[w].kind = kind

\* C1, the step: a callback with a valid 7-token text for a caller without a
\* record (or with status 'new') goes on to the collection call
InitiationStarts ==
    \A w \in Workers :
        (/\ pc[w] = "idle" /\ pc'[w] # "idle" /\ loc'[w].kind # "webhook"
         /\ Valid7(parse_text(loc'[w].text))
         /\ IsNew(store, loc'[w].phone))
        => (pc'[w] = "call" /\ loc'[w].kind = "init" /\ loc'[w].calls = 0)

\* C1, the outcome: the flow makes one initiate_collection call, and once it
\* has answered the caller's persisted status is 'pending' or 'failed'
InitiationOutcome ==
    \A w \in Workers :
        loc[w].kind = "init" =>
            /\ pc[w] \in {"call", "write", "done"}
            /\ loc[w].calls = (IF pc[w] = "call" THEN 0 ELSE 1)
            /\ pc[w] = "done" =>
                  /\ loc[w].phone \in DOMAIN store
                  /\ store[loc[w].phone].status \in {"pending", "failed"}

\* C1: a valid 7-token callback for a caller with no record or status 'new'
\* makes exactly one initiate_collection call and leaves the caller's
\* persisted status 'pending' or 'failed', never absent or 'new'
C1_ValidRegistrationInitiatesOnce == [][InitiationStarts]_vars /\ []InitiationOutcome

\* C1 witness: a valid registration was answered after one call that the
\* provider refused, and the caller is persisted as 'failed'
C1_Witness ==
    \E w \in Workers :
        /\ Answered(w, "init") /\ Valid7(parse_text(loc[w].text))
        /\ loc[w].calls = 1 /\ ~loc[w].res.success
        /\ store[loc[w].phone].status = "failed"

\* C2: when the provider accepts the collection of a valid registration and
\* returns a transaction id, the answer is END 'Payment request sent...' and
\* the record holds status 'pending', that id, and the phone, name, role,
\* location and package derived from the caller and the tokens
C2_AcceptedRegistrationIsPersisted ==
    \A w \in Workers :
        (Answered(w, "init") /\ loc[w].res.success /\ loc[w].res.transaction_id # None) =>
            LET parts == parse_text(loc[w].text)
                phone == loc[w].phone
            IN /\ loc[w].resp = create_response("END", M_SENT)
               /\ phone \in DOMAIN store
               /\ store[phone].status = "pending"
               /\ store[phone].transaction_id = loc[w].res.transaction_id
               /\ store[phone].transaction_id \in Issued
               /\ store[phone].phone = phone
               /\ store[phone].name = strip(parts[2])
               /\ store[phone].role =
                     (CASE parts[3] = <<"1">> -> "Farmer"
                        [] parts[3] = <<"2">> -> "Buyer"
                        [] parts[3] = <<"3">> -> "Service Provider")
               /\ store[phone].location = strip(parts[4])
               /\ store[phone].package = "Yofarm Access"

\* C2 witness: an accepted registration whose name and location were typed
\* with surrounding blanks
C2_Witness ==
    \E w \in Workers :
        /\ Answered(w, "init") /\ loc[w].res.success
        /\ loc[w].res.transaction_id = "T1"
        /\ parse_text(loc[w].text)[2] = <<" ", "b">>
        /\ store[loc[w].phone].name = <<"b">>
        /\ store[loc[w].phone].status = "pending"

\* C3: when initiate_collection reports failure, the fresh initiation and
\* the retry both persist status 'failed' and answer END with the generic
\* 'We cannot process your payment...' message
C3_RefusedPaymentIsFailed ==
    \A w \in Workers :
        (pc[w] = "done" /\ loc[w].kind \in {"init", "retry"} /\ ~loc[w].res.success) =>
            /\ loc[w].resp = create_response("END", M_CANNOT_PROCESS)
            /\ loc[w].phone \in DOMAIN store
            /\ store[loc[w].phone].status = "failed"

\* C3 witness: a retry that the provider could not serve was answered
C3_Witness ==
    \E w \in Workers :
        /\ Answered(w, "retry") /\ ~loc[w].res.success
        /\ loc[w].res.message = "Payment service unavailable"
        /\ store[loc[w].phone].status = "failed"

\* the lifecycle status the closed table gives a provider status
PollTable(original_status) ==
    IF original_status \in {"Success", "SUCCESS"} THEN "registered"
    ELSE IF original_status \in {"Pending", "SentToVendor"} THEN "pending"
    ELSE "failed"

\* C4: the poll path maps the provider status case-insensitively by the
\* closed table, every other or missing status to 'failed'; it sets a user
\* 'registered' only when the provider answered 'success'
C4_PollMappingFailsClosed ==
    \A w \in Workers :
        (loc[w].kind = "confirm" /\ loc[w].res.success) =>
            /\ loc[w].res.status = PollTable(loc[w].res.original_status)
            /\ pc[w] = "done" =>
                  /\ store[loc[w].phone].status = PollTable(loc[w].res.original_status)
                  /\ store[loc[w].phone].status = "registered"
                        => loc[w].res.original_status \in {"Success", "SUCCESS"}

\* C4 witness: a confirmation met a status outside the table and the user
\* was set 'failed'
C4_Witness ==
    \E w \in Workers :
        /\ Answered(w, "confirm") /\ loc[w].res.success
        /\ loc[w].res.original_status = "Expired"
        /\ store[loc[w].phone].status = "failed"

\* the lifecycle state of a caller: its persisted status, or "absent"
Lifecycle(db, phone) == IF phone \in DOMAIN db THEN db[phone].status ELSE "absent"

\* C5: REGISTERED is a sink: once a user's persisted status is 'registered'
\* it stays 'registered' for as long as the record exists, for any
\* interleaving of the USSD callbacks for that phone
C5_RegisteredIsSink ==
    [][\A phone \in Phones :
          (Lifecycle(store, phone) = "registered" /\ phone \in DOMAIN store')
          => Lifecycle(store', phone) = "registered"]_vars

\* the listed transitions of the lifecycle
ValidTransitions ==
    {<<"absent", "pending">>, <<"absent", "failed">>, <<"new", "pending">>, <<"new", "failed">>,
     <<"pending", "registered">>, <<"pending", "failed">>, <<"pending", "pending">>,
     <<"failed", "pending">>, <<"failed", "failed">>,
     <<"new", "absent">>, <<"pending", "absent">>, <<"failed", "absent">>,
     <<"registered", "absent">>}

\* C6: every change of a user's persisted lifecycle status is one of the
\* listed transitions, also with concurrent callbacks for the same phone
C6_OnlyListedTransitions ==
    [][\A phone \in Phones :
          \/ Lifecycle(store', phone) = Lifecycle(store, phone)
          \/ <<Lifecycle(store, phone), Lifecycle(store', phone)>> \in ValidTransitions]_vars

\* the two documents agree in every field but updated_at
SameApartFromUpdatedAt(d, e) ==
    /\ DOMAIN d = DOMAIN e
    /\ \A f \in (DOMAIN d) \ {"updated_at"} : d[f] = e[f]

\* a confirmation whose status check the provider answered pending-like
PendingConfirm(l) == l.kind = "confirm" /\ l.res.success /\ l.res.status = "pending"

\* C7: confirmation is idempotent: a confirm callback of a pending user with
\* a stored transaction id that meets a pending-like provider status leaves
\* the record as it found it apart from updated_at (status 'pending', the
\* same transaction_id), and a second such callback right after it returns
\* the same END message and leaves the record as the first one left it
C7_ConfirmIsIdempotent ==
    \A w \in Workers :
        (pc[w] = "done" /\ PendingConfirm(loc[w])) =>
            LET phone == loc[w].phone IN
            /\ phone \in DOMAIN store
            /\ store[phone].status = "pending"
            /\ store[phone].transaction_id = loc[w].user.transaction_id
            /\ SameApartFromUpdatedAt(store[phone], loc[w].user)
            /\ loc[w].resp.response_type = "END"
            /\ (PendingConfirm(prev) /\ prev.phone = phone) =>
                  /\ loc[w].resp = prev.resp
                  /\ loc[w].user.transaction_id = prev.user.transaction_id
                  /\ SameApartFromUpdatedAt(loc[w].user, prev.user)

\* C7 witness: the second of two consecutive pending confirmations was
\* answered, the provider having said 'Pending' and then 'SentToVendor'
C7_Witness ==
    \E w \in Workers :
        /\ pc[w] = "done" /\ PendingConfirm(loc[w]) /\ PendingConfirm(prev)
        /\ prev.phone = loc[w].phone
        /\ prev.res.original_status = "Pending"
        /\ loc[w].res.original_status = "SentToVendor"
        /\ store[loc[w].phone].transaction_id = "T1"

\* the answer or the operation a worker took up is the one the decision d
\* leads to
Follows(w, d) ==
    IF d.act = "respond"
    THEN pc[w] = "done" /\ loc[w].kind = "respond" /\ loc[w].resp = d.resp
    ELSE loc[w].kind = d.act /\ loc[w].user = d.user

\* C8: after 'restart registration' the caller's record is absent, and the
\* callbacks that follow are handled as those of a phone that never had a
\* record
C8_RestartEqualsFresh ==
    \A w \in Workers :
        /\ Answered(w, "delete") =>
              /\ loc[w].phone \notin DOMAIN store
              /\ \A text \in Texts :
                    handle_ussd_request(store, loc[w].phone, text)
                    = handle_ussd_request(EmptyStore, loc[w].phone, text)
        /\ (prev.kind = "delete" /\ pc[w] # "idle" /\ loc[w].phone = prev.phone) =>
              Follows(w, handle_ussd_request(EmptyStore, loc[w].phone, loc[w].text))

\* C8 witness: after a restart the caller's next callback, a complete
\* registration, was taken up as a fresh initiation
C8_Witness ==
    \E w \in Workers :
        /\ prev.kind = "delete" /\ prev.resp = create_response("END", M_RESET)
        /\ loc[w].phone = prev.phone /\ loc[w].kind = "init" /\ pc[w] = "done"

\* the statuses the webhook takes for a success
SuccessLike(status) == status # None /\ lower(status) \in {"success", "completed", "paid"}

\* C9: a success-like notification for an existing user named by its msisdn
\* (here: about the transaction the user's record holds) finalises the user:
\* lifecycle status 'registered' (so the next callback goes to the
\* returning-user flow) and no outstanding transaction
C9_WebhookSuccessRegisters ==
    \A w \in Workers :
        (/\ Answered(w, "webhook") /\ SuccessLike(loc[w].wstatus)
         /\ loc[w].msisdn \in DOMAIN store
         /\ loc[w].tx \in Issued) =>
            /\ store[loc[w].msisdn].status = "registered"
            /\ ~Truthy(Get(store[loc[w].msisdn], "transaction_id"))
            /\ \A text \in Texts :
                  handle_ussd_request(store, loc[w].msisdn, text)
                  = handle_registered_user_flow(parse_text(text))

\* the users whose record holds the transaction id that initiation or retry
\* persisted
HoldersOf(db, tx_id) == {k \in DOMAIN db : Get(db[k], "transaction_id") = tx_id}

\* C10: a notification without msisdn that carries the transaction id
\* persisted on a user's record is resolved to that user, and a success-like
\* one finalises that user
C10_WebhookFindsUserByTransaction ==
    \A w \in Workers :
        (/\ Answered(w, "webhook") /\ loc[w].msisdn = NoPhone /\ loc[w].tx # None
         /\ HoldersOf(store, loc[w].tx) # {}) =>
            /\ loc[w].phone \in HoldersOf(store, loc[w].tx)
            /\ SuccessLike(loc[w].wstatus) => store[loc[w].phone].status = "registered"

LifecycleFields == {"status", "transaction_id", "name", "role", "location", "package"}

\* C12, the step: a notification that is not success-like creates no record,
\* touches no record but that of its phone, and on that record only adds
\* the raw status as payment_status
RecordsRawStatusOnly ==
    \A w \in Workers :
        (/\ pc[w] = "idle" /\ pc'[w] = "done" /\ loc'[w].kind = "webhook"
         /\ ~SuccessLike(loc'[w].wstatus)) =>
            /\ DOMAIN store' = DOMAIN store
            /\ \A k \in DOMAIN store :
                  IF k = loc'[w].phone
                  THEN /\ store'[k] = Merge(store[k], [payment_status |-> loc'[w].wstatus])
                       /\ \A f \in LifecycleFields : Get(store'[k], f) = Get(store[k], f)
                  ELSE store'[k] = store[k]

Refreshing == {"post", "set_token", "set_expiry"}

\* C13: token refresh is single-flight: of the callers that find the cache
\* absent or stale, no two are refreshing at the same time, so at most one
\* token request is sent for that expiry
C13_TokenRefreshIsSingleFlight ==
    \A c \in Callers, d \in Callers :
        (c # d /\ tpc[c] \in Refreshing /\ tpc[d] \in Refreshing) =>
            ~(tloc[c].posted /\ tloc[d].posted)

\* C14: get_access_token serves the cached token, without a token request,
\* exactly when a token is cached and the clock it read is strictly less
\* than token_expires_at - 30; otherwise it sends a token request and on
\* success stores the new token with token_expires_at = now + expires_in
\* (300 when the answer names no lifetime).  A served token is more than 30
\* seconds before the expiry stored with it
C14_CacheServedOnlyBeforeMargin ==
    \A c \in Callers :
        LET l == tloc[c] IN
        /\ tpc[c] # "idle" =>
              (l.hit <=> (/\ l.seen_token # None /\ l.seen_expires # NoExpiry
                          /\ l.seen_at < l.seen_expires - 30))
        /\ (tpc[c] # "idle" /\ l.hit) => (~l.posted /\ l.tok = None)
        /\ (tpc[c] = "done" /\ l.hit) =>
              /\ l.ret = l.seen_token
              /\ l.ret \in DOMAIN grants
              /\ l.seen_at + 30 < grants[l.ret]
        /\ (tpc[c] \notin {"idle", "post"} /\ ~l.hit) => l.posted
        /\ (tpc[c] \in {"return", "done"} /\ ~l.hit /\ l.ans.kind \in {"ok", "ok_no_expiry"}) =>
              /\ access_token = l.tok
              /\ token_expires_at =
                    l.stored_at + (IF l.ans.kind = "ok_no_expiry" THEN 300 ELSE l.ans.expires_in)
              /\ tpc[c] = "done" => l.ret = l.tok

\* C14 witness: a token stored at instant 0 with a lifetime of 32 seconds was
\* served from the cache at instant 1, the last instant before its margin
C14_Witness ==
    \E c \in Callers :
        /\ tpc[c] = "done" /\ tloc[c].hit
        /\ tloc[c].seen_at = 1 /\ tloc[c].seen_expires = 32
        /\ tloc[c].ret = "K1"

\* the characters of s that are decimal digits
IsDigit(ch) == ch \in {"0", "1", "2", "3", "4", "5", "6", "7", "8", "9"}

\* the canonical MSISDN of the claim's examples
Msisdn701234567 == <<"2", "5", "6", "7", "0", "1", "2", "3", "4", "5", "6", "7">>

\* C19: format_phone_number canonicalises: with the non-digits removed, 12
\* digits starting '256' are returned as they are, 10 digits starting '0'
\* give '256' and the last 9, 9 digits give '256' and the 9, anything else
\* gives no result; '0701234567', '701234567' and '256701234567' all give
\* '256701234567', and every result is 12 digits starting with '256'
C19_PhoneIsCanonicalised ==
    fout.done =>
        LET d == SelectSeq(fin, IsDigit)
            k == <<"2", "5", "6">>
        IN /\ fout.val =
                 (CASE Len(d) = 12 /\ SubSeq(d, 1, 3) = k -> d
                    [] Len(d) = 10 /\ d[1] = "0" -> k \o SubSeq(d, 2, 10)
                    [] Len(d) = 9 -> k \o d
                    [] OTHER -> NoPhone)
           /\ fout.val # NoPhone =>
                 /\ Len(fout.val) = 12 /\ SubSeq(fout.val, 1, 3) = k
                 /\ \A i \in 1..12 : IsDigit(fout.val[i])
           /\ d \in {<<"0", "7", "0", "1", "2", "3", "4", "5", "6", "7">>, <<"7", "0", "1", "2", "3", "4", "5", "6", "7">>, Msisdn701234567} => fout.val = Msisdn701234567

\* C19 witness: '+0701234567' was normalised to '256701234567'
C19_Witness ==
    /\ fout.done
    /\ fin = <<"+">> \o <<"0", "7", "0", "1", "2", "3", "4", "5", "6", "7">>
    /\ fout.val = Msisdn701234567

\* the text between the first and the last character that is no whitespace
Trimmed(s) ==
    LET solid == {i \in 1..Len(s) : s[i] \notin {" ", "\t", "\n"}} IN
    IF solid = {} THEN <<>>
    ELSE SubSeq(s, CHOOSE i \in solid : \A j \in solid : i <= j,
                   CHOOSE i \in solid : \A j \in solid : i >= j)

\* C20: parse_text gives the empty sequence for a missing, empty or
\* whitespace-only text, and otherwise the '*'-separated tokens of the trimmed
\* text in order: one token more than the text has '*', no token holds a
\* '*', and the tokens joined by '*' are the trimmed text
C20_ParseSplitsTrimmedText ==
    fout.done =>
        IF fin = NoneText \/ Trimmed(fin) = <<>>
        THEN fout.val = <<>>
        ELSE LET text == Trimmed(fin) IN
             /\ Len(fout.val) = Cardinality({i \in 1..Len(text) : text[i] = "*"}) + 1
             /\ \A n \in 1..Len(fout.val) : \A i \in 1..Len(fout.val[n]) : fout.val[n][i] # "*"
             /\ Join(fout.val) = text

\* C20 witness: ' *1' was trimmed and split into an empty token and '1'
C20_Witness ==
    /\ fout.done
    /\ fin = <<" ", "*", "1">>
    /\ fout.val = <<<<>>, <<"1">>>>

\* the tokens a menu step accepts, by the position of the step
MenuTable(i) ==
    CASE i = 1 -> {<<"1">>, <<"2">>}
      [] i = 3 -> {<<"1">>, <<"2">>, <<"3">>}
      [] i = 5 -> {<<"1">>, <<"2">>}
      [] i = 6 -> {<<"1">>}
      [] i = 7 -> {<<"1">>, <<"2">>}

\* the positions of the free-text steps (name, location)
FreeTextSteps == {2, 4}

\* token i is malformed for its field: blank free text, or outside the menu
Malformed(parts, i) ==
    IF i \in FreeTextSteps THEN Trimmed(parts[i]) = <<>> ELSE parts[i] \notin MenuTable(i)

\* token i is the caller's choice to leave: exit, decline, cancel
Leaves(parts, i) == i \in {1, 5, 7} /\ parts[i] = <<"2">>

\* token i is the first malformed token, and the caller did not leave before
FirstMalformed(parts, i) ==
    /\ i \in 1..Len(parts) /\ i <= 7
    /\ Malformed(parts, i)
    /\ \A j \in 1..(i - 1) : ~Malformed(parts, j) /\ ~Leaves(parts, j)

\* C17, the step: the callback of a caller without a record whose text has a
\* malformed token is answered at once, with no write and no provider call:
\* END for a menu token, the same question again (CON) for a blank name or
\* location; a non-blank name or location as the last token is answered CON
MalformedTreated ==
    \A w \in Workers :
        (/\ pc[w] = "idle" /\ pc'[w] # "idle" /\ loc'[w].kind # "webhook"
         /\ IsNew(store, loc'[w].phone)) =>
            LET parts == parse_text(loc'[w].text) IN
            /\ \A i \in 1..Len(parts) :
                  FirstMalformed(parts, i) =>
                     /\ pc'[w] = "done" /\ loc'[w].kind = "respond" /\ loc'[w].calls = 0
                     /\ store' = store /\ nextTxn' = nextTxn
                     /\ IF i \in FreeTextSteps
                        THEN loc'[w].resp = create_response("CON",
                                 IF i = 2 THEN M_ENTER_NAME ELSE M_ENTER_LOCATION)
                        ELSE loc'[w].resp.response_type = "END"
            /\ (/\ Len(parts) \in FreeTextSteps
                /\ \A j \in 1..Len(parts) : ~Malformed(parts, j) /\ ~Leaves(parts, j))
                  => loc'[w].resp.response_type = "CON"

\* C17: in the new-registration flow a menu token outside its table always
\* ends the session (END), a blank name or location re-prompts the same
\* question (CON) and a non-blank one never ends the session; no record is
\* written and no provider call is made
C17_MalformedTokenByFieldKind == [][MalformedTreated]_vars

\* C17 witness: role token '9' was answered END 'Invalid role selection.
\* Session ended.' and there is still no record
C17_Witness ==
    \E w \in Workers :
        /\ Answered(w, "respond")
        /\ parse_text(loc[w].text) = <<<<"1">>, <<"a">>, <<"9">>>>
        /\ loc[w].resp = create_response("END", M_INVALID_ROLE)
        /\ store = EmptyStore /\ nextTxn = 1

\* C18: a blank name or location re-prompts without consuming a step: the
\* non-blank submission that follows a blank name is taken as the name and
\* answered with the role menu, the one that follows a blank location is
\* taken as the location and answered with the terms prompt
C18_BlankRepromptThenAdvance ==
    \A w \in Workers :
        (Answered(w, "respond") /\ IsNew(store, loc[w].phone)) =>
            LET parts == parse_text(loc[w].text) IN
            /\ (/\ Len(parts) = 3 /\ parts[1] = <<"1">>
                /\ Trimmed(parts[2]) = <<>> /\ Trimmed(parts[3]) # <<>>)
                  => loc[w].resp = create_response("CON", M_SELECT_ROLE)
            /\ (/\ Len(parts) = 5 /\ parts[1] = <<"1">> /\ Trimmed(parts[2]) # <<>>
                /\ parts[3] \in MenuTable(3)
                /\ Trimmed(parts[4]) = <<>> /\ Trimmed(parts[5]) # <<>>)
                  => loc[w].resp = create_response("CON", M_TERMS)

\* the messages of the except clauses of the handler, and of the branch for
\* a status the handler does not know
GenericErrors ==
    {M_SERVICE_ERROR, M_UNAVAILABLE, M_INIT_FAILED, M_RETRY_FAILED, M_CONFIRM_FAILED}

\* C16: for every shape of the stored record and every provider or store
\* failure the callback is answered CON or END; an exception or an unknown
\* status is answered END with a generic try-again-later message, and the
\* callback has then written nothing: the caller's record is as it was read
C16_AlwaysAnsweredErrorsWriteNothing ==
    \A w \in Workers :
        (pc[w] = "done" /\ loc[w].kind # "webhook") =>
            /\ loc[w].resp.response_type \in {"CON", "END"}
            /\ loc[w].resp.message \in GenericErrors =>
                  /\ loc[w].resp.response_type = "END"
                  /\ loc[w].kind \in {"retry", "confirm"} =>
                        get_user(store, loc[w].phone) = loc[w].user

\* what is seen of a callback: the response, the store writes, the requests
Observed(o) == [resp |-> o.resp, db |-> o.db, requests |-> o.requests]

\* what a freshly started instance does with the callback last served, the
\* issuer answering its token request with answer
FreshOutcome(answer) ==
    callback_outcome(None, NoExpiry, fin.now, fin.db, fin.phone, fin.text, answer,
                     fin.new_token, fin.env, fin.id)

\* C15 as stated: the response, the store writes and the provider calls of
\* a callback are those of a freshly started handler instance given the same
\* callback, store, provider answers and clock, whatever the earlier
\* callbacks of the instance that served it
C15_SameOutcomeAsFreshInstance ==
    fout.done => Observed(fout.val) = Observed(FreshOutcome(fin.answer))

\* the instance met a cache without a token, or one past its margin
MetStaleCache ==
    fin.token = None \/ fin.expires_at = NoExpiry \/ fin.now >= fin.expires_at - 30

\* C15 amended: the instance's earlier callbacks matter only through the
\* cached token of its PaymentService: with no token or a stale one the
\* callback has the outcome a fresh instance gives it, with a valid one the
\* outcome a fresh instance gives it when its token request succeeds, less
\* that request
C15_HistoryOnlyThroughTokenCache ==
    fout.done =>
        IF MetStaleCache
        THEN Observed(fout.val) = Observed(FreshOutcome(fin.answer))
        ELSE LET fresh == FreshOutcome(TokenAnswer("ok", 32)) IN
             /\ fout.val.resp = fresh.resp
             /\ fout.val.db = fresh.db
             /\ fresh.requests \in {fout.val.requests, <<"token">> \o fout.val.requests}
             /\ \A i \in 1..Len(fout.val.requests) : fout.val.requests[i] # "token"

\* C15 witness: an instance that had fetched token K1 earlier, stale by now,
\* confirmed a payment after asking for a new token
C15_Witness ==
    /\ fout.done
    /\ fin.token = "K1" /\ MetStaleCache
    /\ fout.val.requests = <<"token", "status">>
    /\ fout.val.db[PhoneA].status = "registered"

\* C21: every USSD callback eventually returns a response, also when the
\* provider never answers a token, collection or status request: a worker
\* that has taken a callback always comes to its answer
C21_EveryCallbackReturns ==
    \A w \in Worker1 : (pc[w] # "idle") ~> (pc[w] = "done")

\* C22: no two payment initiations collide on their external id: any two
\* collection requests of the system, fresh or retry, also two for the same
\* phone within the same clock second, carry different external ids
C22_ExternalIdsAreDistinct ==
    \A i, j \in 1..Len(sent) : i # j => sent[i].external_id # sent[j].external_id

\* the steps of a worker through one callback: from idle to the provider
\* call or the write or the answer, from the call to the write or the answer,
\* from the write to the answer, never back; the call is one step, and the
\* store changes only in the step from the write to the answer
OneCallOneWrite ==
    /\ \A w \in Workers :
          /\ pc[w] = "call" => (pc'[w] \in {"write", "done"} \/ loc'[w] = loc[w])
          /\ pc[w] = "write" => pc'[w] \in {"write", "done"}
          /\ pc[w] = "done" => pc'[w] \in {"done", "idle"}
          /\ loc'[w].calls <= 1
          /\ (pc[w] # "idle" /\ pc'[w] # "idle") =>
                (loc'[w].phone = loc[w].phone /\ loc'[w].text = loc[w].text)
    /\ store' # store => \E w \in Workers : pc[w] = "write" /\ pc'[w] = "done"

\* C23: the handling of one callback performs at most one of save_user,
\* update_user_status and delete_user, and at most one call of the provider's
\* collection or status endpoint
C23_OneWriteOneCallPerCallback == [][OneCallOneWrite]_vars

\* C23 witness: a retry that called the provider once and wrote once
C23_Witness ==
    \E w \in Workers :
        /\ Answered(w, "retry") /\ loc[w].calls = 1 /\ loc[w].res.success
        /\ store[loc[w].phone].status = "pending"
        /\ store[loc[w].phone].transaction_id = loc[w].res.transaction_id

\* C24: the new-registration flow is keyed by the number of tokens: a payment
\* initiation is triggered only by a callback with exactly 7 tokens, all
\* valid and the seventh '1'; a callback with 8 or more tokens initiates none
C24_InitiationOnlyAtSevenTokens ==
    (fout.done /\ fout.val.act = "init") => Valid7(parse_text(fin))

\* the callbacks that may write or call: a new-flow callback that reaches the
\* pay step with '1', and an incomplete-flow callback with choice '1' or '2'
MayWriteOrCall(db, phone, parts) ==
    \/ /\ IsNew(db, phone)
       /\ Len(parts) >= 7
       /\ parts[1] = <<"1">> /\ parts[5] = <<"1">> /\ parts[7] = <<"1">>
    \/ /\ phone \in DOMAIN db
       /\ Get(db[phone], "status") \in {"pending", "failed"}
       /\ Len(parts) >= 1
       /\ parts[1] \in {<<"1">>, <<"2">>}

\* a callback of any other kind is answered at once, and the store changes
\* only in the write of a worker that went on, or by a notification
OnlyThreeKindsAct ==
    /\ \A w \in Workers :
          (pc[w] = "idle" /\ pc'[w] # "idle" /\ loc'[w].kind # "webhook"
           /\ ~MayWriteOrCall(store, loc'[w].phone, parse_text(loc'[w].text)))
          => (pc'[w] = "done" /\ loc'[w].kind = "respond" /\ loc'[w].calls = 0
              /\ store' = store /\ nextTxn' = nextTxn)
    /\ store' # store =>
          \E w \in Workers : \/ pc[w] = "write" /\ loc[w].kind \in {"init", "retry", "confirm", "delete"}
                             \/ pc[w] = "idle" /\ loc'[w].kind = "webhook"
    /\ \A w \in Workers : (pc[w] = "done" /\ loc[w].kind = "respond") => store' = store

RetryOption == "1. Retry payment for {package}"

ConfirmOption == "1. Confirm payment for {package}"

\* what a callback of a 'pending' or 'failed' user is dispatched to
IncompleteDispatch ==
    \A w \in Workers :
        (/\ pc[w] = "idle" /\ pc'[w] # "idle" /\ loc'[w].kind # "webhook"
         /\ loc'[w].phone \in DOMAIN store
         /\ store[loc'[w].phone].status \in {"pending", "failed"})
        => LET parts == parse_text(loc'[w].text)
               user == store[loc'[w].phone]
               l == loc'[w]
           IN IF Len(parts) = 0
              THEN /\ pc'[w] = "done" /\ l.kind = "respond"
                   /\ l.resp = create_response("CON",
                          M_INCOMPLETE(user.name,
                                       IF user.status = "failed" THEN RetryOption
                                       ELSE ConfirmOption, user.package))
                   /\ l.resp.message.s[1] = RetryOption <=> user.status = "failed"
                   /\ l.resp.message.s[1] = ConfirmOption <=> user.status = "pending"
              ELSE IF parts[1] = <<"1">>
              THEN /\ l.kind = "retry" <=> user.status = "failed"
                   /\ l.kind = "confirm" <=> user.status = "pending"
                   /\ l.kind \in {"retry", "confirm"}
                   /\ l.user = user
              ELSE IF parts[1] = <<"2">>
              THEN pc'[w] = "write" /\ l.kind = "delete"
              ELSE /\ pc'[w] = "done" /\ l.kind = "respond"
                   /\ l.resp = create_response("END", M_INVALID_OPTION)
                   /\ store' = store

\* the restart of an incomplete registration, once answered
RestartDeletes ==
    \A w \in Workers :
        Answered(w, "delete") =>
            /\ loc[w].phone \notin DOMAIN store
            /\ loc[w].resp.response_type = "END"
            /\ loc[w].resp.message = M_RESET

\* C26: for a user with status 'pending' or 'failed', no input shows the CON
\* menu with 'Retry payment' exactly for 'failed' and 'Confirm payment'
\* exactly for 'pending', plus 'Restart registration'; '1' runs retry_payment
\* exactly for 'failed' and confirm_payment exactly for 'pending'; '2' deletes
\* the record and answers END; anything else answers END 'Invalid option.
\* Session ended.' and leaves the store as it is
C26_IncompleteRegistrationMenu == [][IncompleteDispatch]_vars /\ []RestartDeletes

\* C26 witness: a 'failed' user was shown the menu with 'Retry payment'
C26_Witness ==
    \E w \in Workers :
        /\ Answered(w, "respond")
        /\ loc[w].phone \in DOMAIN store
        /\ store[loc[w].phone].status = "failed"
        /\ loc[w].resp.response_type = "CON"
        /\ loc[w].resp.message.s = <<RetryOption, "Yofarm Access">>

\* what a callback of a 'registered' user is answered, in its first step
ReturningUserStep ==
    \A w \in Workers :
        (/\ pc[w] = "idle" /\ pc'[w] # "idle" /\ loc'[w].kind # "webhook"
         /\ loc'[w].phone \in DOMAIN store
         /\ store[loc'[w].phone].status = "registered")
        => LET parts == parse_text(loc'[w].text) IN
           /\ pc'[w] = "done" /\ loc'[w].kind = "respond" /\ loc'[w].calls = 0
           /\ store' = store /\ nextTxn' = nextTxn
           /\ loc'[w].resp =
                 (IF Len(parts) = 0 THEN create_response("CON", M_REGISTERED_MENU)
                  ELSE IF parts[1] \in {<<"1">>, <<"2">>} THEN create_response("END", M_THANKS)
                  ELSE create_response("END", M_INVALID_OPTION))

\* C27: for a 'registered' user no input yields the CON Buy/Sell menu, a
\* first token '1' or '2' one and the same END acknowledgement, any other
\* first token END 'Invalid option. Session ended.'; no returning-user
\* callback changes the record or calls the provider
C27_ReturningUserOnlyAnswered == [][ReturningUserStep]_vars

\* C27 witness: a registered user chose '2' and was acknowledged
C27_Witness ==
    \E w \in Workers :
        /\ Answered(w, "respond")
        /\ loc[w].phone \in DOMAIN store
        /\ store[loc[w].phone].status = "registered"
        /\ parse_text(loc[w].text) = <<(<<"2">>)>>
        /\ loc[w].resp = create_response("END", M_THANKS)

\* a confirmation without a stored transaction id is answered in its first
\* step, before any call of the provider
NoTransactionNoCall ==
    \A w \in Workers :
        (/\ pc[w] = "idle" /\ pc'[w] # "idle" /\ loc'[w].kind = "confirm"
         /\ ~Truthy(Get(loc'[w].user, "transaction_id")))
        => (pc'[w] = "done" /\ store' = store /\ nextTxn' = nextTxn)

\* a confirmation answered without a successful status check left the record
\* as it was read, 'pending' with its transaction id
UncheckedStaysPending ==
    \A w \in Workers :
        (Answered(w, "confirm") /\ ~loc[w].res.success) =>
            /\ loc[w].phone \in DOMAIN store
            /\ store[loc[w].phone] = loc[w].user
            /\ store[loc[w].phone].status = "pending"
            /\ loc[w].resp =
                  (IF Truthy(loc[w].user.transaction_id)
                   THEN create_response("END", M_UNABLE_TO_CHECK)
                   ELSE create_response("END", M_NO_TRANSACTION))

\* C28: confirm_payment changes the record only when the status check
\* succeeds: without a stored transaction id it answers END 'No transaction
\* found...' without calling the provider, after a failed status check END
\* 'Unable to check payment status...'; in both cases status and transaction
\* id are unchanged and the user stays 'pending'
C28_FailedCheckLeavesPending == [][NoTransactionNoCall]_vars /\ []UncheckedStaysPending

\* C28 witness: the status check of a pending user with a transaction id
\* failed, and the user was told so
C28_Witness ==
    \E w \in Workers :
        /\ Answered(w, "confirm") /\ ~loc[w].res.success
        /\ loc[w].user.transaction_id \in Issued
        /\ loc[w].res.message = "Status check failed"
        /\ loc[w].resp = create_response("END", M_UNABLE_TO_CHECK)
        /\ store[loc[w].phone].status = "pending"

\* the fields of a record that a payment attempt leaves alone
Identity(doc) ==
    [f \in {"phone", "name", "role", "location", "package"} |-> doc[f]]

\* C29: a retry for a 'failed' user makes one initiate_collection call with a
\* 'RETRY_' external id; on success it sets 'pending' and overwrites
\* transaction_id with the newly returned id, on failure it sets 'failed' and
\* leaves transaction_id as it was; phone, name, role, location and package
\* stay as they were
C29_RetryUpdatesStatusAndIdOnly ==
    \A w \in Workers :
        Answered(w, "retry") =>
            LET old == loc[w].user
                res == loc[w].res
                new == store[loc[w].phone]
            IN /\ old.status = "failed"
               /\ loc[w].calls = 1
               /\ Posts(old.phone, IF res.message = "Authentication failed"
                                   THEN "auth_failed" ELSE "ok") =>
                     /\ sent # <<>>
                     /\ sent[Len(sent)].external_id.prefix = "RETRY"
                     /\ sent[Len(sent)].external_id.phone = old.phone
               /\ Identity(new) = Identity(old)
               /\ DOMAIN new = DOMAIN old
               /\ res.success =>
                     /\ new.status = "pending"
                     /\ new.transaction_id = res.transaction_id
               /\ ~res.success =>
                     /\ new.status = "failed"
                     /\ new.transaction_id = old.transaction_id

\* the positions of the collection requests for a phone that the provider
\* accepted
Accepted(phone) ==
    {i \in 1..Len(sent) : sent[i].success /\ sent[i].external_id.phone = phone}

\* the latest of them
Latest(phone) == CHOOSE i \in Accepted(phone) : \A j \in Accepted(phone) : j <= i

\* C30: a user's stored transaction_id identifies the most recent payment
\* attempt: whenever the status is 'pending' (and no callback of the user is
\* between its call and its write), transaction_id is the id returned by the
\* latest successful initiate_collection call for that phone, also when two
\* initiation or retry callbacks for the phone run concurrently
C30_PendingHoldsLatestId ==
    \A phone \in DOMAIN store :
        (/\ store[phone].status = "pending"
         /\ \A w \in Workers : pc[w] \in {"idle", "done"}
         /\ Accepted(phone) # {})
        => store[phone].transaction_id = sent[Latest(phone)].id

\* C31: a user whose persisted status is 'pending' has a non-empty stored
\* transaction_id, whatever the provider answered to the initiation or the
\* retry, a 2xx answer without an id included
C31_PendingHasTransactionId ==
    \A phone \in DOMAIN store :
        Get(store[phone], "status") = "pending" =>
            Truthy(Get(store[phone], "transaction_id"))

\* the callback served last calls a payment operation
PaymentOperation ==
    LET d == handle_ussd_request(fin.db, fin.phone, fin.text) IN
    IF d.act \in {"init", "retry"} THEN "collect"
    ELSE IF d.act = "confirm" /\ Truthy(Get(d.user, "transaction_id")) THEN "check"
    ELSE "none"

\* the token request of the callback served last was needed and failed
IssuanceFailed ==
    /\ MetStaleCache
    /\ fin.answer.kind \in {"http_error", "bad_body", "bad_expires_in"}

\* the payment operation of the callback served last was treated as
\* unavailable: nothing but the token request went out, and the caller was
\* answered with the failure of the operation
TreatedAsUnavailable ==
    /\ \A i \in 1..Len(fout.val.requests) : fout.val.requests[i] = "token"
    /\ IF PaymentOperation = "collect"
       THEN /\ fout.val.resp = create_response("END", M_CANNOT_PROCESS)
            /\ fout.val.db[fin.phone].status = "failed"
       ELSE /\ fout.val.resp = create_response("END", M_UNABLE_TO_CHECK)
            /\ fout.val.db = fin.db

\* C32: when token issuance fails get_access_token returns no token, never
\* the stale cached one, and initiate_collection and check_transaction_status
\* fail without a collection or status request; when the caller's phone cannot
\* be normalised initiate_collection fails without a collection request
C32_NoTokenNoRequest ==
    (fout.done /\ PaymentOperation # "none") =>
        /\ IssuanceFailed =>
              /\ fout.val.cache.ret = None
              /\ fout.val.requests = <<"token">>
              /\ TreatedAsUnavailable
        /\ (fin.phone = PhoneB /\ PaymentOperation = "collect") => TreatedAsUnavailable

\* C32 witness: a registration met a stale cached token and an issuer that
\* refused, and was answered with the failure without a collection request
C32_Witness ==
    /\ fout.done /\ PaymentOperation = "collect"
    /\ fin.token = "K1" /\ IssuanceFailed /\ fin.answer.kind = "http_error"
    /\ fin.phone = PhoneA /\ fin.env = "ok"
    /\ fout.val.cache.ret = None
    /\ fout.val.requests = <<"token">>
    /\ fout.val.db[PhoneA].status = "failed"

\* C33: every collection request names the caller as the payer: its payer
\* field is format_phone_number of the phone of the callback that caused it,
\* for a fresh initiation and for a retry
C33_PayerIsTheCaller ==
    \A i \in 1..Len(sent) :
        sent[i].payer = format_phone_number(sent[i].external_id.phone)

\* C34: for a phone without a record at most one collection is initiated per
\* registration: two callbacks of one caller that are in progress together
\* do not both call initiate_collection for a new registration
C34_OneInitiationPerRegistration ==
    \A w1 \in Workers, w2 \in Workers :
        (/\ w1 # w2
         /\ pc[w1] # "idle" /\ pc[w2] # "idle"
         /\ loc[w1].kind = "init" /\ loc[w2].kind = "init"
         /\ loc[w1].user.phone = loc[w2].user.phone)
        => ~(loc[w1].calls > 0 /\ loc[w2].calls > 0)

\* C35: with concurrent executions of get_access_token the cached pair
\* (access_token, token_expires_at) comes from one token response, and a
\* token is never served from the cache later than 30 seconds before the
\* end of its own lifetime (grants holds the expiry each token was stored
\* with; a caller at set_expiry is between its two writes)
C35_CachedPairFromOneResponse ==
    /\ (/\ \A c \in Callers : tpc[c] # "set_expiry"
        /\ access_token \in DOMAIN grants)
       => token_expires_at = grants[access_token]
    /\ \A c \in Callers :
          (tpc[c] = "done" /\ tloc[c].hit /\ tloc[c].ret \in DOMAIN grants) =>
              tloc[c].seen_at + 30 < grants[tloc[c].ret]

\* C36: a terminal message reflects what was persisted, also when the store
\* rejects or fails the write or the delete: 'Payment request sent...' is
\* answered only if the caller's record is stored 'pending' with the
\* transaction id the provider returned, and 'Registration reset...' only if
\* the record is deleted
C36_AnswerReflectsStore ==
    \A w \in Workers :
        pc[w] = "done" =>
            /\ loc[w].resp = create_response("END", M_SENT) =>
                  /\ loc[w].phone \in DOMAIN store
                  /\ Get(store[loc[w].phone], "status") = "pending"
                  /\ Truthy(loc[w].res.transaction_id) =>
                        Get(store[loc[w].phone], "transaction_id") = loc[w].res.transaction_id
            /\ loc[w].resp = create_response("END", M_RESET) =>
                  loc[w].phone \notin DOMAIN store

\* worker w read the caller's record for a retry or a confirmation, the
\* record has been deleted since, and w has its write still to make
WritesAfterDeletion(w) ==
    /\ pc[w] = "write"
    /\ loc[w].kind \in {"retry", "confirm"}
    /\ loc[w].phone \notin DOMAIN store

\* C37: a record removed by 'start new registration' is never re-created
\* by a confirm or retry callback that read it before the deletion and
\* writes after it
C37_DeletedRecordStaysDeleted ==
    [][\A w \in Workers :
          (WritesAfterDeletion(w) /\ pc'[w] = "done") =>
              loc[w].phone \notin DOMAIN store']_vars

\* C37 witness: a retry that read the failed record has the provider's
\* acceptance in hand and its write to make, while the callback that chose
\* 'start new registration' has deleted the record and been answered
C37_Witness ==
    \E w \in Workers, v \in Workers :
        /\ WritesAfterDeletion(w) /\ loc[w].kind = "retry" /\ loc[w].res.success
        /\ pc[v] = "done" /\ loc[v].kind = "delete"
        /\ loc[v].resp = create_response("END", M_RESET)

====
